---- MODULE Spec2Model ----
(***************************************************************************)
(* Model of karva's per-worker test runner (PackageRunner): the scoped     *)
(* traversal of packages, modules, tests and variants, fixture setup with  *)
(* the scope caches, generator finalizers, result classification, retries  *)
(* and fail-fast.                                                          *)
(***************************************************************************)
EXTENDS Integers, Sequences, FiniteSets, TLC

(***************************************************************************)
(* Bounds of the discovered tree and of the settings.                      *)
(***************************************************************************)
NumSubPackages == 2
NumModules == 1
NumTests == 2
NumVariants == 1
MaxRetry == 1

Scopes == {"function", "module", "package", "session"}

RECURSIVE Reverse(_)
Reverse(s) == IF s = <<>> THEN <<>> ELSE Reverse(Tail(s)) \o <<Head(s)>>

Range(s) == {s[i] : i \in 1..Len(s)}

\* F applied to the value of v, with v evaluated once
Bind(v, F(_)) == CHOOSE y \in {F(x) : x \in {v}} : TRUE

(***************************************************************************)
(* The discovered tree.  Package 0 is the session root; packages           *)
(* 1..NumSubPackages are its sub-packages.  Every package has a            *)
(* configuration module and NumModules test modules; every module has      *)
(* NumTests test functions with NumVariants variants each.                 *)
(***************************************************************************)
RootPackage == 0
SubPackages == 1..NumSubPackages
Packages == {RootPackage} \cup SubPackages

\* module paths: <<"conf", p, 0>> is package p's configuration module,
\* <<"mod", p, m>> is test module m of package p
ConfPath(p) == <<"conf", p, 0>>
ModPath(p, m) == <<"mod", p, m>>

\* QualifiedFunctionName: module path plus function name
QName(mp, fn) == [mp |-> mp, fn |-> fn]

BuiltInPath == <<"builtin", 0, 0>>

\* fixture definitions by function name:
\*   scope, is_generator, auto_use, dependency names, user-defined or built-in
FixtureDef(fn) ==
  CASE fn = "sauto" -> [scope |-> "session", gen |-> TRUE, auto |-> TRUE, deps |-> <<>>, user |-> TRUE]
    [] fn = "db" -> [scope |-> "session", gen |-> TRUE, auto |-> FALSE, deps |-> <<>>, user |-> TRUE]
    [] fn = "pkg" -> [scope |-> "package", gen |-> TRUE, auto |-> FALSE, deps |-> <<>>, user |-> TRUE]
    [] fn = "pauto" -> [scope |-> "package", gen |-> TRUE, auto |-> TRUE, deps |-> <<>>, user |-> TRUE]
    [] fn = "mod" -> [scope |-> "module", gen |-> TRUE, auto |-> FALSE, deps |-> <<"pkg">>, user |-> TRUE]
    [] fn = "base" -> [scope |-> "function", gen |-> FALSE, auto |-> FALSE, deps |-> <<>>, user |-> TRUE]
    [] fn = "top" -> [scope |-> "function", gen |-> TRUE, auto |-> FALSE, deps |-> <<"base">>, user |-> TRUE]
    [] fn = "fauto" -> [scope |-> "function", gen |-> TRUE, auto |-> TRUE, deps |-> <<>>, user |-> TRUE]
    [] fn = "monkeypatch" -> [scope |-> "function", gen |-> FALSE, auto |-> FALSE, deps |-> <<>>, user |-> FALSE]

\* what each configuration module and each test module defines
ConfFixtures(p) == IF p = RootPackage THEN {"sauto", "db", "pkg", "pauto"} ELSE {"db"}
ModFixtures == {"mod", "base", "top", "fauto"}
BuiltInFixtures == {"monkeypatch"}

\* ancestors of package p, nearest first (p itself included)
Ancestors(p) == IF p = RootPackage THEN <<RootPackage>> ELSE <<p, RootPackage>>

(***************************************************************************)
(* RuntimeFixtureResolver: a name is looked up in the current module, then *)
(* in each ancestor package's configuration module, nearest first, then    *)
(* among the built-ins.  ctx = <<p, m>>, with m = 0 for a configuration    *)
(* module.                                                                 *)
(***************************************************************************)
Resolve(fn, ctx) ==
  LET p == ctx[1]
      m == ctx[2]
      anc == Ancestors(p)
      hits == {i \in 1..Len(anc) : fn \in ConfFixtures(anc[i])}
  IN IF m # 0 /\ fn \in ModFixtures THEN QName(ModPath(p, m), fn)
     ELSE IF hits # {} THEN QName(ConfPath(anc[CHOOSE i \in hits : \A j \in hits : i <= j]), fn)
     ELSE QName(BuiltInPath, fn)

\* NormalizedFixture accessors
function_name(f) == f.fn
scope(f) == FixtureDef(f.fn).scope
is_user_defined(f) == FixtureDef(f.fn).user
is_generator(f) == FixtureDef(f.fn).gen
dependencies(f, ctx) == [i \in 1..Len(FixtureDef(f.fn).deps) |-> Resolve(FixtureDef(f.fn).deps[i], ctx)]

\* auto-use fixtures of one scope visible from ctx, outermost first
AutoUseNames(ctx) ==
  LET p == ctx[1]
      m == ctx[2]
  IN (IF m # 0 THEN ModFixtures ELSE {}) \cup UNION {ConfFixtures(q) : q \in Range(Ancestors(p))}

get_normalized_auto_use_fixtures(ctx, s) ==
  LET names == {fn \in AutoUseNames(ctx) : FixtureDef(fn).auto /\ FixtureDef(fn).scope = s}
      RECURSIVE AsSeq(_)
      AsSeq(S) == IF S = {} THEN <<>>
                  ELSE LET x == CHOOSE y \in S : TRUE IN <<Resolve(x, ctx)>> \o AsSeq(S \ {x})
  IN AsSeq(names)

(***************************************************************************)
(* FixtureCache: per scope, function name -> value.  A value is modelled   *)
(* by the qualified name of the fixture whose call produced it.            *)
(***************************************************************************)
EmptyFixtureCache == {}

FixtureCacheGet(cache, name, s) == {e \in cache : e.name = name /\ e.scope = s}

FixtureCacheInsert(cache, name, val, s) ==
  {e \in cache : ~(e.name = name /\ e.scope = s)} \cup {[name |-> name, scope |-> s, val |-> val]}

clear_fixtures(cache, s) == {e \in cache : e.scope # s}

(***************************************************************************)
(* FinalizerCache: per scope, the pending finalizers in insertion order.   *)
(***************************************************************************)
EmptyFinalizerCache == [s \in Scopes |-> <<>>]

add_finalizer(fins, fin) == [fins EXCEPT ![fin.scope] = Append(@, fin)]

(***************************************************************************)
(* The container a fixture instance belongs to: the session, the package   *)
(* whose configuration module defines a package fixture, the module (or    *)
(* the variant of the module) being run for the others.                    *)
(***************************************************************************)
Container(f, ctx) ==
  CASE scope(f) = "session" -> <<"session", 0, 0>>
    [] scope(f) = "package" -> <<"package", f.mp[2], 0>>
    [] scope(f) = "module" -> <<"module", ctx[1], ctx[2]>>
    [] scope(f) = "function" -> <<"function", ctx[1], ctx[2]>>

\* Finalizer { fixture_name, scope }, with the container it was set up in
Finalizer(f, ctx) == [fix |-> f, scope |-> scope(f), owner |-> Container(f, ctx)]

(***************************************************************************)
(* The runner state threaded through one handler: the two caches, and the  *)
(* observations made on the way: fixtures invoked, cache hits served,      *)
(* finalizers created in completion order.                                 *)
(***************************************************************************)
CountCall(cnt, f) ==
  [once |-> cnt.once \cup {f}, more |-> IF f \in cnt.once THEN cnt.more \cup {f} ELSE cnt.more]

\* get_value_and_finalizer: a generator fixture (sync or async) and a
\* built-in with a finalizer callable yield their value and leave a finalizer
get_value_and_finalizer(f, ctx) ==
  IF is_user_defined(f) /\ is_generator(f) THEN <<Finalizer(f, ctx)>>
  ELSE IF ~is_user_defined(f) /\ f.fn \in BuiltInFixtures THEN <<Finalizer(f, ctx)>>
  ELSE <<>>

\* the finalizer run_fixture hands back: a function-scope finalizer is
\* returned, a higher-scope one goes to the finalizer cache
ReturnedFinalizer(fin) == IF fin # <<>> /\ fin[1].scope = "function" THEN fin ELSE <<>>

CachedFinalizers(fins, fin) ==
  IF fin # <<>> /\ fin[1].scope # "function" THEN add_finalizer(fins, fin[1]) ELSE fins

\* the key under which run_fixture looks a fixture up and stores its value
CacheKey(f) == function_name(f)

RECURSIVE run_fixture(_, _, _, _), RunDependencies(_, _, _, _, _)

\* run_fixture's loop over fixture.dependencies(): stops at the first error
RunDependencies(deps, i, ctx, st, failing) ==
  IF i > Len(deps) THEN [st |-> st, ok |-> TRUE, err |-> <<>>]
  ELSE Bind(run_fixture(deps[i], ctx, st, failing), LAMBDA r :
         IF ~r.ok THEN [st |-> r.st, ok |-> FALSE, err |-> r.err]
         ELSE Bind(IF r.fin # <<>> THEN [r.st EXCEPT !.fins = add_finalizer(@, r.fin[1])] ELSE r.st,
                   LAMBDA st1 : RunDependencies(deps, i + 1, ctx, st1, failing)))

run_fixture(f, ctx, st, failing) ==
  Bind(FixtureCacheGet(st.cache, CacheKey(f), scope(f)), LAMBDA cached :
    IF cached # {}
    THEN Bind(CHOOSE x \in cached : TRUE, LAMBDA e :
           [st |-> [st EXCEPT !.hits = @ \cup {<<f, e.val>>}],
            ok |-> TRUE, val |-> <<e.val>>, fin |-> <<>>, err |-> <<>>])
    ELSE Bind(RunDependencies(dependencies(f, ctx), 1, ctx, st, failing), LAMBDA d :
           IF ~d.ok THEN [st |-> d.st, ok |-> FALSE, val |-> <<>>, fin |-> <<>>, err |-> d.err]
           ELSE Bind([d.st EXCEPT !.calls = CountCall(@, f), !.invoked = Append(@, f)], LAMBDA called :
                  IF is_user_defined(f) /\ f \in failing
                  THEN [st |-> called, ok |-> FALSE, val |-> <<>>, fin |-> <<>>, err |-> <<f>>]
                  ELSE Bind(get_value_and_finalizer(f, ctx), LAMBDA fin :
                         [st |-> [called EXCEPT
                                    !.cache = IF is_user_defined(f)
                                              THEN FixtureCacheInsert(@, CacheKey(f), f, scope(f))
                                              ELSE @,
                                    !.fins = CachedFinalizers(@, fin),
                                    !.created = @ \o fin],
                          ok |-> TRUE, val |-> <<f>>, fin |-> ReturnedFinalizer(fin), err |-> <<>>]))))

\* run_fixtures: every fixture is run, returned finalizers go to the
\* finalizer cache, errors are collected
RECURSIVE run_fixtures(_, _, _, _, _)
run_fixtures(fixtures, i, ctx, st, failing) ==
  IF i > Len(fixtures) THEN [st |-> st, errs |-> <<>>]
  ELSE Bind(run_fixture(fixtures[i], ctx, st, failing), LAMBDA r :
         Bind(IF r.ok /\ r.fin # <<>> THEN [r.st EXCEPT !.fins = add_finalizer(@, r.fin[1])] ELSE r.st,
              LAMBDA st1 :
                Bind(run_fixtures(fixtures, i + 1, ctx, st1, failing), LAMBDA rest :
                  [st |-> rest.st, errs |-> r.err \o rest.errs])))

(***************************************************************************)
(* Finalizer::run: the generator is advanced once more.  Exhaustion is the *)
(* expected outcome; a second yield or a raised error gives a diagnostic   *)
(* (when the finalizer knows its fixture) and nothing else.                *)
(***************************************************************************)
FinalizerOutcomes == {"exhausted", "yield", "raise"}

\* the outcome the guest gives the finalizer of fin: bad is a set of
\* <<fixture, outcome>> pairs, every other finalizer is exhausted
OutcomeOf(fin, bad) ==
  IF \E b \in bad : b[1] = fin.fix THEN (CHOOSE b \in bad : b[1] = fin.fix)[2] ELSE "exhausted"

FinalizerRun(fin, outcome) ==
  IF outcome = "exhausted" \/ ~is_user_defined(fin.fix) THEN <<>>
  ELSE IF outcome = "yield" THEN <<[fix |-> fin.fix, reason |-> "Fixture had more than one yield statement"]>>
  ELSE <<[fix |-> fin.fix, reason |-> "Failed to reset fixture"]>>

\* a teardown loop that gives up at the first finalizer that does not end
\* as expected
RECURSIVE RunFinalizersAborting(_, _)
RunFinalizersAborting(fs, bad) ==
  IF fs = <<>> THEN [ran |-> <<>>, diags |-> <<>>]
  ELSE IF OutcomeOf(Head(fs), bad) # "exhausted"
       THEN [ran |-> <<Head(fs)>>, diags |-> FinalizerRun(Head(fs), OutcomeOf(Head(fs), bad))]
  ELSE Bind(RunFinalizersAborting(Tail(fs), bad), LAMBDA rest :
         [ran |-> <<Head(fs)>> \o rest.ran, diags |-> rest.diags])

\* runs the finalizers of a sequence one after the other, in its order
RECURSIVE RunFinalizers(_, _)
RunFinalizers(fs, bad) ==
  IF fs = <<>> THEN [ran |-> <<>>, diags |-> <<>>]
  ELSE Bind(RunFinalizers(Tail(fs), bad), LAMBDA rest :
         [ran |-> <<Head(fs)>> \o rest.ran,
          diags |-> FinalizerRun(Head(fs), OutcomeOf(Head(fs), bad)) \o rest.diags])

\* FinalizerCache::run_and_clear_scope: drains the scope's list in reverse
\* insertion order
run_and_clear_scope(fins, s, bad) ==
  Bind(RunFinalizers(Reverse(fins[s]), bad), LAMBDA r :
    [fins |-> [fins EXCEPT ![s] = <<>>], ran |-> r.ran, diags |-> r.diags])

\* PackageRunner::clean_up_scope
clean_up_scope(st, s, bad) ==
  Bind(run_and_clear_scope(st.fins, s, bad), LAMBDA r :
    [st EXCEPT !.fins = r.fins,
               !.cache = clear_fixtures(@, s),
               !.ran = @ \o r.ran,
               !.diags = @ \o r.diags,
               !.cleaned = Append(@, s)])

(***************************************************************************)
(* Result classification and registration.                                 *)
(***************************************************************************)
BodyOutcomes == {"ok", "error", "skip"}

\* Context::register_test_case_result: the value the runner's loops use as
\* "passed"
register_test_case_result(kind) == kind # "Failed"

\* a classification that does not recognise the skip sentinel
classify_skip_as_error(test_result, expect_fail, missing) ==
  IF test_result = "ok"
  THEN IF expect_fail THEN [kind |-> "Failed", diag |-> "pass_on_expect_failure"]
       ELSE [kind |-> "Passed", diag |-> "none"]
  ELSE IF expect_fail THEN [kind |-> "Passed", diag |-> "none"]
  ELSE [kind |-> "Failed", diag |-> IF missing THEN "missing_fixtures" ELSE "test_failure"]

\* a classification that looks at expect_fail before the skip sentinel
classify_expect_fail_first(test_result, expect_fail, missing) ==
  IF test_result = "ok"
  THEN IF expect_fail THEN [kind |-> "Failed", diag |-> "pass_on_expect_failure"]
       ELSE [kind |-> "Passed", diag |-> "none"]
  ELSE IF expect_fail THEN [kind |-> "Passed", diag |-> "none"]
  ELSE IF test_result = "skip" THEN [kind |-> "Skipped", diag |-> "none"]
  ELSE [kind |-> "Failed", diag |-> IF missing THEN "missing_fixtures" ELSE "test_failure"]

\* classify_test_result: the kind registered, and the diagnostic reported
classify_test_result(test_result, expect_fail, missing) ==
  IF test_result = "ok"
  THEN IF expect_fail THEN [kind |-> "Failed", diag |-> "pass_on_expect_failure"]
       ELSE [kind |-> "Passed", diag |-> "none"]
  ELSE IF test_result = "skip" THEN [kind |-> "Skipped", diag |-> "none"]
  ELSE IF expect_fail THEN [kind |-> "Passed", diag |-> "none"]
  ELSE [kind |-> "Failed", diag |-> IF missing THEN "missing_fixtures" ELSE "test_failure"]

\* one call of the test function: with an argument missing the guest raises
\* before the body runs, otherwise the body decides
run_test(oracle, n, missing) == IF missing THEN "error" ELSE oracle[n]

\* the first call and the retry loop: the outcomes of the calls made
RECURSIVE RetryLoop(_, _, _, _)
RetryLoop(results, retry_count, oracle, missing) ==
  IF retry_count > 0 /\ results[Len(results)] # "ok"
  THEN RetryLoop(Append(results, run_test(oracle, Len(results) + 1, missing)),
                 retry_count - 1, oracle, missing)
  ELSE results

RunWithRetries(retry, oracle, missing) ==
  RetryLoop(<<run_test(oracle, 1, missing)>>, retry, oracle, missing)

(***************************************************************************)
(* State.                                                                  *)
(***************************************************************************)
VARIABLES
  suite,            \* the kind of test suite discovered (see Suites)
  settings,         \* settings().test(): fail_fast, retry
  pc,               \* where the runner is
  stack,            \* the open execute_package calls, outermost first
  modf,             \* the open execute_module call
  variant,          \* the variant the iterator yielded last
  fixture_cache,    \* PackageRunner.fixture_cache
  finalizer_cache,  \* PackageRunner.finalizer_cache
  calls,            \* fixtures invoked since their container was opened
  failed_seen,      \* a variant has been registered as Failed
  entered,          \* the session, the packages and the modules whose handler has started
  closed,           \* those cleaned up, and those cleaned up twice
  visited,          \* variants the iterator has yielded
  setup_log,        \* per scope, the finalizers not yet cleaned up, in the order their setups completed
  last,             \* what the last handler did
  env,              \* the process environment: KARVA_SNAPSHOT_UPDATE, <<>> when unset
  SNAPSHOT_CONTEXT, \* the thread-local Option<SnapshotContext>, <<>> for None
  SNAPSHOT_SETTINGS,\* the thread-local stack of ActiveSettings, outermost first
  disk,             \* the snapshots directory: path -> bytes of the files that exist
  source,           \* the test file, as its statements in order
  loaded,           \* the test file as the running test process imported it
  raised,           \* an exception of a snapshot call is leaving the test function
  run_pending,      \* the pending files written since the process started
  accepted,         \* the .snap files that are an accepted pending file
  started,          \* the tests the process has started
  origin,           \* the call every pending file on disk was written by
  steps,            \* operations of the snapshot engine so far
  snap,             \* what the last operation of the snapshot engine did
  invocation,       \* a command line and what its collaborators will answer
  outcome,          \* what the process invoked did and how it exited, <<>> before
  unassigned,       \* the tests the partitioner has yet to assign, longest first
  partitions,       \* the partitioner's bins, one per worker
  placed,           \* the assignment the partitioner made last
  scan_source,      \* a source text the inline scanner is given, character by character
  scan_location,    \* what the scanner returned for it, <<>> before
  watch_pc,         \* where the watch loop is
  file_rx,          \* the channel of batches of changed .py paths, oldest first
  shutdown_rx,      \* the shutdown signal has been delivered
  watch_log,  \* the runs the watch loop has made and what started each
  tree,             \* a directory tree: its files and the directories that cannot be read
  listing           \* the listings made of the tree

\* the state of the runner, and the state of the snapshot engine
runner_vars == <<suite, settings, pc, stack, modf, variant, fixture_cache, finalizer_cache,
                 calls, failed_seen, entered, closed, visited, setup_log, last>>

snapvars == <<env, SNAPSHOT_CONTEXT, SNAPSHOT_SETTINGS, disk, source, loaded, raised, run_pending,
              accepted, started, origin,
              steps, snap>>

\* the state of the inline scanner, and the state of the watch loop
scanvars == <<scan_source, scan_location>>
watchvars == <<watch_pc, file_rx, shutdown_rx, watch_log>>
listvars == <<tree, listing>>

\* the state of the command line and of the orchestrator, and of the two
\* tools the command line drives
orchvars == <<invocation, outcome, unassigned, partitions, placed, scanvars, watchvars, listvars>>

vars == <<runner_vars, snapvars, orchvars>>

NoVariant ==
  [deps |-> <<>>, use |-> <<>>, tag_reject |-> FALSE, name_reject |-> FALSE,
   skip |-> <<>>, expect_fail |-> FALSE]

NoObs ==
  [op |-> "none", ctx |-> <<0, 0>>, invoked |-> <<>>, hits |-> {}, created |-> <<>>,
   pending |-> <<>>, ran |-> <<>>, bad |-> {}, diags |-> <<>>, cleaned |-> <<>>,
   errs |-> <<>>, args |-> {}, body |-> <<>>, result |-> <<>>, reason |-> <<>>,
   cached_after_setup |-> {}, twice |-> {}, setup |-> <<>>, container |-> <<"none", 0, 0>>]

NoModule == [m |-> 0, passed |-> TRUE, t |-> 0, v |-> 0]

\* the runner state a handler starts from
St == [cache |-> fixture_cache, fins |-> finalizer_cache,
       calls |-> [once |-> calls, more |-> {}],
       hits |-> {}, invoked |-> <<>>, created |-> <<>>, ran |-> <<>>,
       diags |-> <<>>, cleaned |-> <<>>]

Observe(op, ctx, st) ==
  [NoObs EXCEPT !.op = op, !.ctx = ctx, !.invoked = st.invoked, !.hits = st.hits,
                !.created = st.created, !.ran = st.ran, !.diags = st.diags,
                !.cleaned = st.cleaned, !.twice = st.calls.more]

SelectScope(fs, s) == SelectSeq(fs, LAMBDA f : f.scope = s)

\* the setup log after a handler that created the finalizers of st.created
\* and cleaned the scopes of st.cleaned
Logged(st) ==
  [s \in Scopes |-> IF s \in Range(st.cleaned) THEN <<>>
                    ELSE setup_log[s] \o SelectScope(st.created, s)]

\* what was pending for scope s when the handler cleaned it
SetupOf(st, s) == setup_log[s] \o SelectScope(st.created, s)

\* the invocation counts of the fixtures whose container ends are forgotten
ResetCalls(cnt, s, p) ==
  LET keep(f) == ~(scope(f) = s /\ (s = "package" => f.mp[2] = p))
  IN {f \in cnt.once : keep(f)}

Top == stack[Len(stack)]

SubPackagesOf(p) == IF p = RootPackage THEN [i \in 1..NumSubPackages |-> i] ELSE <<>>

(***************************************************************************)
(* Two kinds of discovered suites are explored.  In a "fixtures" suite the *)
(* tests request fixtures of every scope, a fixture of module scope or     *)
(* above may raise during setup, any finalizer may misbehave, and the test *)
(* bodies themselves return normally; there are no tags, no filters and no *)
(* retries.  In an "outcomes" suite the tests request function-scope       *)
(* fixtures only, carry skip and expect_fail tags, may be rejected by the  *)
(* filters, and their bodies return, raise or skip, with retries; only     *)
(* function-scope fixtures raise during setup and the finalizers behave.   *)
(***************************************************************************)
Suites == {"fixtures", "outcomes"}

\* the choices of fixtures whose setup raises: none, or one of fs
FailingMenu(fs) ==
  {{}} \cup {{fs[i]} : i \in {j \in 1..Len(fs) :
                                /\ is_user_defined(fs[j])
                                /\ suite = "outcomes" <=> scope(fs[j]) = "function"}}

\* the choices of misbehaving finalizers: none, or one of fs with a second
\* yield or a raised error
BadMenu(fs) ==
  {{}} \cup (IF suite = "fixtures"
             THEN {{<<fs[i].fix, k>>} : i \in 1..Len(fs), k \in {"yield", "raise"}}
             ELSE {})

\* Option<T>: <<>> for None, <<x>> for Some(x)
None == <<>>
Some(x) == <<x>>
IsSome(o) == o # <<>>

\* a directory without files
NoFiles == [p \in {} |-> <<>>]

NoSnap ==
  [op |-> "none", error |-> None, before |-> <<>>, call |-> <<>>, target |-> <<>>,
   resolved |-> None, serialized |-> None,
   written |-> {}, removed |-> {}, rewrote |-> {}, overwrote |-> {}]

\* the snapshot engine before any test process has started
SnapshotIdle ==
  /\ env = None
  /\ SNAPSHOT_CONTEXT = None
  /\ SNAPSHOT_SETTINGS = <<>>
  /\ disk = NoFiles
  /\ source = <<>>
  /\ loaded = <<>>
  /\ raised = FALSE
  /\ run_pending = {}
  /\ accepted = {}
  /\ started = {}
  /\ origin = {}
  /\ steps = 0
  /\ snap = NoSnap

\* no command line under way and nothing to partition
ScanIdle == scan_source = <<>> /\ scan_location = <<>>

WatchIdle == watch_pc = "none" /\ file_rx = <<>> /\ shutdown_rx = FALSE /\ watch_log = <<>>

ListIdle == tree = <<>> /\ listing = <<>>

OrchIdle ==
  /\ invocation = <<>>
  /\ outcome = <<>>
  /\ unassigned = <<>>
  /\ partitions = <<>>
  /\ placed = <<>>
  /\ ScanIdle
  /\ WatchIdle
  /\ ListIdle

\* PackageRunner::new
RunnerStart ==
  /\ pc = "execute"
  /\ stack = <<>>
  /\ modf = NoModule
  /\ variant = NoVariant
  /\ fixture_cache = EmptyFixtureCache
  /\ finalizer_cache = EmptyFinalizerCache
  /\ calls = {}
  /\ failed_seen = FALSE
  /\ entered = {}
  /\ closed = [once |-> {}, more |-> {}]
  /\ visited = {}
  /\ setup_log = [s \in Scopes |-> <<>>]
  /\ last = NoObs

Init ==
  /\ suite \in Suites
  /\ settings \in [fail_fast : BOOLEAN,
                   retry : IF suite = "outcomes" THEN 0..MaxRetry ELSE {0}]
  /\ RunnerStart
  /\ OrchIdle
  /\ SnapshotIdle

\* identifiers of the session, of a package, of a module and of a variant
SessionC == <<"session", 0, 0, 0, 0>>
PackageC(p) == <<"package", p, 0, 0, 0>>
ModuleC(p, m) == <<"module", p, m, 0, 0>>
VariantC(p, m, t, v) == <<"variant", p, m, t, v>>

Commit(st) ==
  /\ fixture_cache' = st.cache
  /\ finalizer_cache' = st.fins

CloseContainer(c) ==
  closed' = [once |-> closed.once \cup {c},
             more |-> IF c \in closed.once THEN closed.more \cup {c} ELSE closed.more]

(***************************************************************************)
(* PackageRunner::execute, up to the call of execute_package: the session  *)
(* auto-use fixtures of the root configuration module.                     *)
(***************************************************************************)
Execute_Begin ==
  /\ pc = "execute"
  /\ LET ctx == <<RootPackage, 0>>
         fixtures == get_normalized_auto_use_fixtures(ctx, "session")
     IN \E failing \in FailingMenu(fixtures) :
          \E r \in {run_fixtures(fixtures, 1, ctx, St, failing)} :
             /\ Commit(r.st)
             /\ calls' = r.st.calls.once
             /\ setup_log' = Logged(r.st)
             /\ last' = [Observe("execute", ctx, r.st) EXCEPT !.errs = r.errs]
  /\ entered' = entered \cup {SessionC}
  /\ pc' = "execute_package"
  /\ UNCHANGED <<orchvars, snapvars, suite, settings, stack, modf, variant, failed_seen, closed, visited>>

(***************************************************************************)
(* execute_package, up to its loop over the modules: the new frame and the *)
(* package auto-use fixtures of the configuration module.                  *)
(***************************************************************************)
Callee == IF stack = <<>> THEN RootPackage ELSE SubPackagesOf(Top.pkg)[Top.si]

ExecutePackage_Begin ==
  /\ pc = "execute_package"
  /\ LET p == Callee
         ctx == <<p, 0>>
         fixtures == get_normalized_auto_use_fixtures(ctx, "package")
     IN /\ \E failing \in FailingMenu(fixtures) :
             \E r \in {run_fixtures(fixtures, 1, ctx, St, failing)} :
                /\ Commit(r.st)
                /\ calls' = r.st.calls.once
                /\ setup_log' = Logged(r.st)
                /\ last' = [Observe("execute_package", ctx, r.st) EXCEPT !.errs = r.errs]
        /\ stack' = Append(stack, [pkg |-> p, passed |-> TRUE, mi |-> 1, si |-> 0])
        /\ entered' = entered \cup {PackageC(p)}
  /\ pc' = "execute_module"
  /\ UNCHANGED <<orchvars, snapvars, suite, settings, modf, variant, failed_seen, closed, visited>>

(***************************************************************************)
(* execute_module, up to its loop over the tests: the module auto-use      *)
(* fixtures.                                                               *)
(***************************************************************************)
ExecuteModule_Begin ==
  /\ pc = "execute_module"
  /\ LET ctx == <<Top.pkg, Top.mi>>
         fixtures == get_normalized_auto_use_fixtures(ctx, "module")
     IN /\ \E failing \in FailingMenu(fixtures) :
             \E r \in {run_fixtures(fixtures, 1, ctx, St, failing)} :
                /\ Commit(r.st)
                /\ calls' = r.st.calls.once
                /\ setup_log' = Logged(r.st)
                /\ last' = [Observe("execute_module", ctx, r.st) EXCEPT !.errs = r.errs]
        /\ modf' = [m |-> Top.mi, passed |-> TRUE, t |-> 1, v |-> 1]
        /\ entered' = entered \cup {ModuleC(ctx[1], ctx[2])}
  /\ pc' = "next_variant"
  /\ UNCHANGED <<orchvars, snapvars, suite, settings, stack, variant, failed_seen, closed, visited>>

(***************************************************************************)
(* TestVariantIterator: the next variant of the current test, with its     *)
(* resolved tags, its fixture dependencies and use-fixtures, and what the  *)
(* two filters say about it.                                               *)
(***************************************************************************)
Shapes ==
  { [deps |-> <<>>, use |-> <<>>],
    [deps |-> <<"top">>, use |-> <<>>],
    [deps |-> <<"mod">>, use |-> <<>>],
    [deps |-> <<"db">>, use |-> <<>>],
    [deps |-> <<"monkeypatch">>, use |-> <<>>] }

FunctionShapes ==
  { [deps |-> <<>>, use |-> <<>>],
    [deps |-> <<"top">>, use |-> <<>>],
    [deps |-> <<"base", "top">>, use |-> <<>>],
    [deps |-> <<>>, use |-> <<"base">>] }

SkipTags == {<<>>, <<"why">>}

\* tag_reject: the tag filter is not empty and does not match the variant's
\* custom tags; name_reject: the same for the name filter; skip: the reason
\* of a skip tag that applies; expect_fail: an expect_fail tag that applies
VariantMenu ==
  IF suite = "fixtures"
  THEN {[deps |-> sh.deps, use |-> sh.use, tag_reject |-> FALSE, name_reject |-> FALSE,
         skip |-> <<>>, expect_fail |-> FALSE] : sh \in Shapes}
  ELSE LET all == [deps : {sh.deps : sh \in FunctionShapes}, use : {sh.use : sh \in FunctionShapes},
                   tag_reject : BOOLEAN, name_reject : BOOLEAN,
                   skip : SkipTags, expect_fail : BOOLEAN]
           stops(x) == x.tag_reject \/ x.name_reject \/ x.skip # <<>>
       IN {x \in all :
             /\ [deps |-> x.deps, use |-> x.use] \in FunctionShapes
             \* of a variant that is not run only the direct dependencies are varied:
             \* its use-fixtures and its expect_fail tag are never looked at
             /\ stops(x) => (x.use = <<>> /\ Len(x.deps) <= 1 /\ ~x.expect_fail)}

\* what the guest's test body does at each call: oracle[n] is the outcome of
\* the n-th call
BodyOracles ==
  IF suite = "fixtures" THEN {[n \in 1..1 |-> "ok"]}
  ELSE [1..(settings.retry + 1) -> BodyOutcomes]

NextVariant ==
  /\ pc = "next_variant"
  /\ variant' \in VariantMenu
  /\ pc' = "execute_variant"
  /\ visited' = visited \cup {VariantC(Top.pkg, modf.m, modf.t, modf.v)}
  /\ last' = [NoObs EXCEPT !.op = "next_variant", !.ctx = <<Top.pkg, modf.m>>]
  /\ UNCHANGED <<orchvars, snapvars, suite, settings, stack, modf, fixture_cache, finalizer_cache, calls,
                 failed_seen, entered, closed, setup_log>>

\* a skip check that looks at the skip tag before the filters
should_skip_variant_tag_first(x) ==
  IF x.skip # <<>> THEN <<[kind |-> "Skipped", reason |-> x.skip]>>
  ELSE IF x.tag_reject THEN <<[kind |-> "Skipped", reason |-> <<>>]>>
  ELSE IF x.name_reject THEN <<[kind |-> "Skipped", reason |-> <<>>]>>
  ELSE <<>>

(***************************************************************************)
(* should_skip_variant: the tag filter, the name filter, the skip tag.     *)
(***************************************************************************)
should_skip_variant(x) ==
  IF x.tag_reject THEN <<[kind |-> "Skipped", reason |-> <<>>]>>
  ELSE IF x.name_reject THEN <<[kind |-> "Skipped", reason |-> <<>>]>>
  ELSE IF x.skip # <<>> THEN <<[kind |-> "Skipped", reason |-> x.skip]>>
  ELSE <<>>

(***************************************************************************)
(* setup_test_fixtures: use-fixtures, then the fixture dependencies (whose *)
(* returned finalizers become the test's own), then the function-scope     *)
(* auto-use fixtures.                                                      *)
(***************************************************************************)
RECURSIVE SetupDependencies(_, _, _, _, _)
SetupDependencies(deps, i, ctx, st, failing) ==
  IF i > Len(deps) THEN [st |-> st, args |-> {}, errs |-> <<>>, test_finalizers |-> <<>>]
  ELSE Bind(run_fixture(deps[i], ctx, st, failing), LAMBDA r :
         Bind(SetupDependencies(deps, i + 1, ctx, r.st, failing), LAMBDA rest :
           [st |-> rest.st,
            args |-> (IF r.ok THEN {function_name(deps[i])} ELSE {}) \cup rest.args,
            errs |-> r.err \o rest.errs,
            test_finalizers |-> r.fin \o rest.test_finalizers]))

ResolveAll(names, ctx) == [i \in 1..Len(names) |-> Resolve(names[i], ctx)]

setup_test_fixtures(x, ctx, st, failing) ==
  Bind(run_fixtures(ResolveAll(x.use, ctx), 1, ctx, st, failing), LAMBDA u :
    Bind(SetupDependencies(ResolveAll(x.deps, ctx), 1, ctx, u.st, failing), LAMBDA d :
      Bind(run_fixtures(get_normalized_auto_use_fixtures(ctx, "function"), 1, ctx, d.st, failing),
           LAMBDA a :
             [st |-> a.st, args |-> d.args, errs |-> u.errs \o d.errs \o a.errs,
              test_finalizers |-> d.test_finalizers])))

\* every fixture the variant's setup may invoke: what it names, what those
\* depend on, and the function-scope auto-use fixtures
RECURSIVE WithDependencies(_, _)
WithDependencies(fs, ctx) ==
  IF fs = <<>> THEN <<>>
  ELSE WithDependencies(dependencies(Head(fs), ctx), ctx) \o <<Head(fs)>> \o WithDependencies(Tail(fs), ctx)

Requested(x, ctx) ==
  WithDependencies(ResolveAll(x.use, ctx) \o ResolveAll(x.deps, ctx)
                   \o get_normalized_auto_use_fixtures(ctx, "function"), ctx)

\* the order in which the variant's finalizers run: the test's own in
\* reverse, then clean_up_scope(Function)
TeardownVariant(st, test_finalizers, bad) ==
  Bind(RunFinalizers(Reverse(test_finalizers), bad), LAMBDA own :
    Bind([st EXCEPT !.ran = @ \o own.ran, !.diags = @ \o own.diags], LAMBDA st1 :
      clean_up_scope(st1, "function", bad)))

\* loops over the variants and the tests that never break
AfterVariantNoBreak(mf, fail_fast) ==
  IF mf.v < NumVariants THEN [modf |-> [mf EXCEPT !.v = @ + 1], pc |-> "next_variant"]
  ELSE IF mf.t < NumTests THEN [modf |-> [mf EXCEPT !.t = @ + 1, !.v = 1], pc |-> "next_variant"]
  ELSE [modf |-> mf, pc |-> "module_end"]

\* the loops of execute_module, were fail-fast to return from execute_module
\* instead of breaking out of its loops
AfterVariantReturnsEarly(mf, fail_fast) ==
  IF fail_fast /\ ~mf.passed THEN [modf |-> mf, pc |-> "package_end"]
  ELSE IF mf.v < NumVariants THEN [modf |-> [mf EXCEPT !.v = @ + 1], pc |-> "next_variant"]
  ELSE IF mf.t < NumTests THEN [modf |-> [mf EXCEPT !.t = @ + 1, !.v = 1], pc |-> "next_variant"]
  ELSE [modf |-> mf, pc |-> "module_end"]

\* the loops of execute_module after a variant has returned
AfterVariant(mf, fail_fast) ==
  IF fail_fast /\ ~mf.passed THEN [modf |-> mf, pc |-> "module_end"]
  ELSE IF mf.v < NumVariants THEN [modf |-> [mf EXCEPT !.v = @ + 1], pc |-> "next_variant"]
  ELSE IF mf.t < NumTests THEN [modf |-> [mf EXCEPT !.t = @ + 1, !.v = 1], pc |-> "next_variant"]
  ELSE [modf |-> mf, pc |-> "module_end"]

ExecuteTestVariant ==
  /\ pc = "execute_variant"
  /\ LET ctx == <<Top.pkg, modf.m>>
         skipped == should_skip_variant(variant)
         finish(passed) ==
           LET nx == AfterVariant([modf EXCEPT !.passed = @ /\ passed], settings.fail_fast)
           IN modf' = nx.modf /\ pc' = nx.pc
     IN IF skipped # <<>>
        THEN /\ finish(register_test_case_result(skipped[1].kind))
             /\ last' = [NoObs EXCEPT !.op = "execute_test_variant", !.ctx = ctx,
                                      !.result = <<skipped[1].kind>>,
                                      !.reason = skipped[1].reason]
             /\ UNCHANGED <<fixture_cache, finalizer_cache, calls, failed_seen, setup_log>>
        ELSE \E failing \in FailingMenu(Requested(variant, ctx)) :
             \E s \in {setup_test_fixtures(variant, ctx, St, failing)} :
             \E pend \in {s.test_finalizers \o s.st.fins["function"]} :
             \E oracle \in BodyOracles, bad \in BadMenu(pend) :
               LET missing == \E i \in 1..Len(variant.deps) : variant.deps[i] \notin s.args
               IN \E body \in {RunWithRetries(settings.retry, oracle, missing)} :
                  \E c \in {classify_test_result(body[Len(body)], variant.expect_fail, missing)} :
                  \E t \in {TeardownVariant(s.st, s.test_finalizers, bad)} :
                    /\ finish(register_test_case_result(c.kind))
                    /\ Commit(t)
                    /\ calls' = ResetCalls(t.calls, "function", Top.pkg)
                    /\ failed_seen' = (failed_seen \/ c.kind = "Failed")
                    /\ setup_log' = Logged(t)
                    /\ last' = [Observe("execute_test_variant", ctx, t) EXCEPT
                                  !.errs = s.errs, !.args = s.args, !.body = body,
                                  !.pending = pend, !.bad = bad,
                                  !.result = <<c.kind>>,
                                  !.cached_after_setup = s.st.cache,
                                  !.setup = SetupOf(t, "function"),
                                  !.container = <<"function", ctx[1], ctx[2]>>]
  /\ UNCHANGED <<orchvars, snapvars, suite, settings, stack, variant, visited, entered, closed>>

(***************************************************************************)
(* execute_module after its loops: module cleanup, and what the caller's   *)
(* loop over the modules does with the returned value.                     *)
(***************************************************************************)
\* the loops of execute_package after a module has returned
AfterModule(fr, fail_fast) ==
  IF fail_fast /\ ~fr.passed THEN [frame |-> fr, pc |-> "package_end"]
  ELSE IF fr.mi < NumModules THEN [frame |-> [fr EXCEPT !.mi = @ + 1], pc |-> "execute_module"]
  ELSE IF (~fail_fast \/ fr.passed) /\ SubPackagesOf(fr.pkg) # <<>>
       THEN [frame |-> [fr EXCEPT !.si = 1], pc |-> "execute_package"]
  ELSE [frame |-> fr, pc |-> "package_end"]

\* the loop of execute_package over the sub-packages after one has returned
AfterSubPackage(fr, fail_fast) ==
  IF fail_fast /\ ~fr.passed THEN [frame |-> fr, pc |-> "package_end"]
  ELSE IF fr.si < Len(SubPackagesOf(fr.pkg))
       THEN [frame |-> [fr EXCEPT !.si = @ + 1], pc |-> "execute_package"]
  ELSE [frame |-> fr, pc |-> "package_end"]

ExecuteModule_End ==
  /\ pc = "module_end"
  /\ LET ctx == <<Top.pkg, modf.m>>
     IN /\ \E bad \in BadMenu(finalizer_cache["module"]) :
             \E t \in {clean_up_scope(St, "module", bad)} :
                /\ Commit(t)
                /\ setup_log' = Logged(t)
                /\ calls' = ResetCalls(t.calls, "module", Top.pkg)
                /\ last' = [Observe("clean_up_module", ctx, t) EXCEPT
                              !.pending = finalizer_cache["module"], !.bad = bad,
                              !.setup = SetupOf(t, "module"),
                              !.container = <<"module", ctx[1], ctx[2]>>]
        /\ LET nx == AfterModule([Top EXCEPT !.passed = @ /\ modf.passed], settings.fail_fast)
           IN /\ stack' = [stack EXCEPT ![Len(stack)] = nx.frame]
              /\ pc' = nx.pc
        /\ CloseContainer(ModuleC(ctx[1], ctx[2]))
  /\ modf' = NoModule
  /\ UNCHANGED <<orchvars, snapvars, suite, settings, variant, failed_seen, entered, visited>>

(***************************************************************************)
(* execute_package after its loops: package cleanup, and what the caller   *)
(* (the parent's loop over its sub-packages, or execute) does next.        *)
(***************************************************************************)
ExecutePackage_End ==
  /\ pc = "package_end"
  /\ LET ctx == <<Top.pkg, 0>>
         parents == SubSeq(stack, 1, Len(stack) - 1)
     IN /\ \E bad \in BadMenu(finalizer_cache["package"]) :
             \E t \in {clean_up_scope(St, "package", bad)} :
                /\ Commit(t)
                /\ setup_log' = Logged(t)
                /\ calls' = ResetCalls(t.calls, "package", Top.pkg)
                /\ last' = [Observe("clean_up_package", ctx, t) EXCEPT
                              !.pending = finalizer_cache["package"], !.bad = bad,
                              !.setup = SetupOf(t, "package"),
                              !.container = <<"package", ctx[1], 0>>]
        /\ IF parents = <<>>
           THEN stack' = <<>> /\ pc' = "session_end"
           ELSE LET up == parents[Len(parents)]
                    nx == AfterSubPackage([up EXCEPT !.passed = @ /\ Top.passed], settings.fail_fast)
                IN /\ stack' = [parents EXCEPT ![Len(parents)] = nx.frame]
                   /\ pc' = nx.pc
        /\ CloseContainer(PackageC(Top.pkg))
  /\ UNCHANGED <<orchvars, snapvars, suite, settings, modf, variant, failed_seen, entered, visited>>

(***************************************************************************)
(* PackageRunner::execute after execute_package: session cleanup.          *)
(***************************************************************************)
Execute_End ==
  /\ pc = "session_end"
  /\ \E bad \in BadMenu(finalizer_cache["session"]) :
       \E t \in {clean_up_scope(St, "session", bad)} :
          /\ Commit(t)
          /\ setup_log' = Logged(t)
          /\ calls' = ResetCalls(t.calls, "session", RootPackage)
          /\ last' = [Observe("clean_up_session", <<RootPackage, 0>>, t) EXCEPT
                        !.pending = finalizer_cache["session"], !.bad = bad,
                        !.setup = SetupOf(t, "session"),
                        !.container = <<"session", 0, 0>>]
  /\ CloseContainer(SessionC)
  /\ pc' = "done"
  /\ UNCHANGED <<orchvars, snapvars, suite, settings, stack, modf, variant, failed_seen, entered, visited>>

(***************************************************************************)
(* The snapshot engine.  Text is a sequence of characters; a word that the *)
(* engine never looks inside ("hello") stands as one character.            *)
(***************************************************************************)
Whitespace == {" ", "\n", "\t"}

\* str::trim_end
RECURSIVE trim_end(_)
trim_end(s) ==
  IF s # <<>> /\ s[Len(s)] \in Whitespace THEN trim_end(SubSeq(s, 1, Len(s) - 1)) ELSE s

\* str::trim_start, as the number of characters it removes
RECURSIVE LeadingWhitespace(_)
LeadingWhitespace(s) ==
  IF s # <<>> /\ s[1] \in Whitespace THEN 1 + LeadingWhitespace(Tail(s)) ELSE 0

\* str::lines: the text between line feeds, without a last empty line
RECURSIVE SplitLines(_, _, _)
SplitLines(s, cur, acc) ==
  IF s = <<>> THEN (IF cur = <<>> THEN acc ELSE Append(acc, cur))
  ELSE IF s[1] = "\n" THEN SplitLines(Tail(s), <<>>, Append(acc, cur))
  ELSE SplitLines(Tail(s), Append(cur, s[1]), acc)

lines(s) == SplitLines(s, <<>>, <<>>)

\* [&str]::join("\n")
RECURSIVE join(_)
join(ls) ==
  IF ls = <<>> THEN <<>>
  ELSE IF Len(ls) = 1 THEN ls[1]
  ELSE ls[1] \o <<"\n">> \o join(Tail(ls))

\* String::repeat of a blank
Blanks(n) == [i \in 1..n |-> " "]

\* the text as one string
RECURSIVE Render(_)
Render(s) == IF s = <<>> THEN "" ELSE s[1] \o Render(Tail(s))

IsBlank(line) == LeadingWhitespace(line) = Len(line)

Min(S) == CHOOSE x \in S : \A y \in S : x <= y

\* karva_snapshot::inline::dedent
dedent(raw) ==
  LET ls == lines(raw)
      solid == {i \in 1..Len(ls) : ~IsBlank(ls[i])}
      min_indent == IF solid = {} THEN 0 ELSE Min({LeadingWhitespace(ls[i]) : i \in solid})
      dedented == [i \in 1..Len(ls) |->
                     IF Len(ls[i]) >= min_indent
                     THEN SubSeq(ls[i], min_indent + 1, Len(ls[i]))
                     ELSE <<>>]
  IN IF solid = {} THEN <<>>
     ELSE join(SubSeq(dedented, Min(solid), CHOOSE i \in solid : \A j \in solid : j <= i))

\* str::replace of one character by a text
RECURSIVE Escape(_, _)
Escape(s, special) ==
  IF s = <<>> THEN <<>>
  ELSE (IF s[1] \in special THEN <<"\\", s[1]>> ELSE <<s[1]>>) \o Escape(Tail(s), special)

\* karva_snapshot::inline::generate_inline_literal
RECURSIVE LiteralLines(_, _)
LiteralLines(ls, content_indent) ==
  IF ls = <<>> THEN <<>>
  ELSE (IF ls[1] = <<>> THEN <<"\n">>
        ELSE Blanks(content_indent) \o Escape(ls[1], {"\\", "\"\"\""}) \o <<"\n">>)
       \o LiteralLines(Tail(ls), content_indent)

generate_inline_literal(value, indent) ==
  IF \A i \in 1..Len(value) : value[i] # "\n"
  THEN <<"\"">> \o Escape(value, {"\\", "\""}) \o <<"\"">>
  ELSE <<"\"\"\"", "\\", "\n">> \o LiteralLines(lines(value), indent + 4)
       \o Blanks(indent) \o <<"\"\"\"">>

\* the value the interpreter gives a string literal: the text between the
\* quotes, a backslash and a line feed standing for nothing and a backslash
\* and another character for that character
RECURSIVE Unescape(_)
Unescape(s) ==
  IF s = <<>> THEN <<>>
  ELSE IF s[1] = "\\" /\ Len(s) >= 2
       THEN (IF s[2] = "\n" THEN <<>> ELSE <<s[2]>>) \o Unescape(SubSeq(s, 3, Len(s)))
       ELSE <<s[1]>> \o Unescape(Tail(s))

Evaluate(literal) == Unescape(SubSeq(literal, 2, Len(literal) - 1))


\* the first position of a character in a text, 0 when it is absent
First(s, ch) ==
  IF \E i \in 1..Len(s) : s[i] = ch THEN Min({i \in 1..Len(s) : s[i] = ch}) ELSE 0

Max(S) == CHOOSE x \in S : \A y \in S : y <= x

\* the last position of a character in a text, 0 when it is absent
LastPos(s, ch) ==
  IF \E i \in 1..Len(s) : s[i] = ch THEN Max({i \in 1..Len(s) : s[i] = ch}) ELSE 0

\* test_name up to its first parenthesis, and from there on
BaseName(test_name) ==
  IF First(test_name, "(") = 0 THEN test_name
  ELSE SubSeq(test_name, 1, First(test_name, "(") - 1)

ParamSuffix(test_name) ==
  IF First(test_name, "(") = 0 THEN <<>>
  ELSE SubSeq(test_name, First(test_name, "("), Len(test_name))

compute_snapshot_name(test_name, counter, allow_duplicates) ==
  IF allow_duplicates
  THEN BaseName(test_name) \o <<"-", ToString(counter)>> \o ParamSuffix(test_name)
  ELSE BaseName(test_name) \o ParamSuffix(test_name)

compute_named_snapshot(test_name, custom_name) ==
  BaseName(test_name) \o <<"--", custom_name>> \o ParamSuffix(test_name)

\* str::replace("::", "__")
Sanitize(name) == [i \in 1..Len(name) |-> IF name[i] = "::" THEN "__" ELSE name[i]]

\* the test file: its stem and its extension
TestFile == <<"test", ".py">>
file_stem(test_file) == test_file[1]
file_name(test_file) == Render(test_file)

\* a path of the snapshots directory: the name up to ".snap", and the rest
snapshot_path(test_file, module_name, snapshot_name) ==
  [stem |-> "snapshots/" \o module_name \o "__" \o Render(snapshot_name), ext |-> ".snap"]

pending_path(snap_path) == [snap_path EXCEPT !.ext = @ \o ".new"]

\* str::strip_suffix(".new")
strip_new(path) == IF path.ext = ".snap.new" THEN Some([path EXCEPT !.ext = ".snap"]) ELSE None

(***************************************************************************)
(* SnapshotFile and its serialized form: a header of "key: value" lines,   *)
(* a blank line, and the content up to the end of the file.                *)
(***************************************************************************)
NoMetadata == [source |-> None, inline_source |-> None, inline_line |-> None]

Entry(key, o) == IF IsSome(o) THEN <<[key |-> key, value |-> o[1]]>> ELSE <<>>

serialize(snapshot) ==
  [head |-> Entry("source", snapshot.metadata.source)
            \o Entry("inline_source", snapshot.metadata.inline_source)
            \o Entry("inline_line",
                     IF IsSome(snapshot.metadata.inline_line)
                     THEN Some(<<ToString(snapshot.metadata.inline_line[1])>>) ELSE None),
   body |-> snapshot.content]

Lookup(head, key) ==
  IF \E i \in 1..Len(head) : head[i].key = key
  THEN Some(head[CHOOSE i \in 1..Len(head) : head[i].key = key].value)
  ELSE None

\* u32::from_str of a header value
LineNumbers == 0..99
ParseLine(text) ==
  IF \E n \in LineNumbers : ToString(n) = Render(text)
  THEN Some(CHOOSE n \in LineNumbers : ToString(n) = Render(text))
  ELSE None

\* SnapshotFile::parse: None without the required key
parse(bytes) ==
  IF Lookup(bytes.head, "source") = None THEN None
  ELSE Some([metadata |->
               [source |-> Lookup(bytes.head, "source"),
                inline_source |-> Lookup(bytes.head, "inline_source"),
                inline_line |-> IF Lookup(bytes.head, "inline_line") = None THEN None
                                ELSE ParseLine(Lookup(bytes.head, "inline_line")[1])],
             content |-> bytes.body])

(***************************************************************************)
(* karva_snapshot::storage, on a world: the snapshots directory, the test  *)
(* file, the snapshot context, and what the operation under way has        *)
(* resolved, written, removed and rewritten.                               *)
(***************************************************************************)
Put(d, path, bytes) == [p \in DOMAIN d \cup {path} |-> IF p = path THEN bytes ELSE d[p]]
Remove(d, path) == [p \in DOMAIN d \ {path} |-> d[p]]

read_snapshot(w, path) == IF path \in DOMAIN w.disk THEN parse(w.disk[path]) ELSE None

fs_write(w, path, bytes) ==
  [w EXCEPT !.disk = Put(@, path, bytes), !.written = @ \cup {path}]

write_snapshot(w, path, snapshot) == fs_write(w, path, serialize(snapshot))

write_pending_snapshot(w, snap_path, snapshot) ==
  LET pending == pending_path(snap_path)
      bytes == serialize(snapshot)
  IN [fs_write(w, pending, bytes) EXCEPT
        !.overwrote = @ \cup (IF /\ pending \in DOMAIN w.disk
                                 /\ w.disk[pending].body # bytes.body
                                 /\ [path |-> pending, bytes |-> w.disk[pending]] \in w.run_pending
                              THEN {pending} ELSE {}),
        !.run_pending = {e \in @ : e.path # pending} \cup {[path |-> pending, bytes |-> bytes]}]

fs_remove_file(w, path) ==
  [w EXCEPT !.disk = Remove(@, path), !.removed = @ \cup {path}]

\* std::fs::rename, which replaces the target
fs_rename(w, from, to) ==
  [w EXCEPT !.disk = Put(Remove(@, from), to, w.disk[from]),
            !.removed = @ \cup {from}, !.written = @ \cup {to}]

(***************************************************************************)
(* The test file.  A statement is a function definition or a snapshot      *)
(* call; a call takes one line, and one more for every line feed inside    *)
(* its inline literal.                                                     *)
(***************************************************************************)
SourcePath == <<"/tmp/">> \o TestFile

Def(fn) == [k |-> "def", fn |-> fn, indent |-> 0, value |-> <<>>, name |-> None,
            inline |-> None, frame |-> None, caught |-> FALSE]
Call(value, name, inline) ==
  [k |-> "call", fn |-> "", indent |-> 4, value |-> value, name |-> name, inline |-> inline,
   frame |-> None, caught |-> FALSE]
\* a line that is neither: an import, a blank line
Other == [k |-> "other", fn |-> "", indent |-> 0, value |-> <<>>, name |-> None,
          inline |-> None, frame |-> None, caught |-> FALSE]
\* a call inside a try statement that catches its exception
Try(call) == [call EXCEPT !.caught = TRUE]
\* a "with karva.snapshot_settings(...)" statement
With(filters, allow_duplicates) ==
  [k |-> "with", fn |-> "", indent |-> 4, value |-> <<>>, name |-> None, inline |-> None,
   frame |-> Some([filters |-> filters, allow_duplicates |-> allow_duplicates]),
   caught |-> FALSE]

NewLines(text) == Cardinality({i \in 1..Len(text) : text[i] = "\n"})
Height(stmt) == IF IsSome(stmt.inline) THEN 1 + NewLines(stmt.inline[1]) ELSE 1

RECURSIVE FirstLine(_, _)
FirstLine(src, i) == IF i = 1 THEN 1 ELSE FirstLine(src, i - 1) + Height(src[i - 1])

LineCount(src) == IF src = <<>> THEN 0 ELSE FirstLine(src, Len(src)) + Height(src[Len(src)]) - 1

\* the statement a line belongs to
StatementAt(src, line) ==
  CHOOSE i \in 1..Len(src) : FirstLine(src, i) <= line /\ line < FirstLine(src, i) + Height(src[i])

\* the leading whitespace of a line
IndentAt(src, line) ==
  LET i == StatementAt(src, line)
      k == line - FirstLine(src, i)
  IN IF k = 0 THEN src[i].indent
     ELSE LeadingWhitespace(SplitLines(src[i].inline[1], <<>>, <<>>)[k + 1])

\* containing_function_name: the nearest definition above a call
containing_function_name(src, i) ==
  IF \E j \in 1..(i - 1) : src[j].k = "def"
  THEN Some(src[Max({j \in 1..(i - 1) : src[j].k = "def"})].fn)
  ELSE None

\* the loop of find_inline_argument: the first call at or after a statement
\* that is not inside another function than the expected one
RECURSIVE FindCall(_, _, _)
FindCall(src, from, expected_fn) ==
  IF ~\E i \in from..Len(src) : src[i].k = "call" THEN None
  ELSE LET i == Min({j \in from..Len(src) : src[j].k = "call"})
           actual_fn == containing_function_name(src, i)
       IN IF IsSome(expected_fn) /\ IsSome(actual_fn) /\ actual_fn[1] # expected_fn[1]
          THEN FindCall(src, i + 1, expected_fn)
          ELSE IF IsSome(src[i].inline) THEN Some(i) ELSE None

\* find_inline_argument, were the indentation taken from the line after
\* the one the search starts from
find_inline_argument_indent_of_next_line(src, line_number, expected_fn) ==
  IF line_number = 0 \/ line_number - 1 >= LineCount(src) THEN None
  ELSE LET after == {i \in 1..Len(src) : FirstLine(src, i) >= line_number}
           found == IF after = {} THEN None ELSE FindCall(src, Min(after), expected_fn)
       IN IF found = None THEN None
          ELSE Some([stmt |-> found[1],
                     indent |-> IF line_number < LineCount(src)
                                THEN IndentAt(src, line_number + 1)
                                ELSE IndentAt(src, line_number)])

\* find_inline_argument: the statement whose literal is found, and the
\* indentation of the line the search started from
find_inline_argument(src, line_number, expected_fn) ==
  IF line_number = 0 \/ line_number - 1 >= LineCount(src) THEN None
  ELSE LET after == {i \in 1..Len(src) : FirstLine(src, i) >= line_number}
           found == IF after = {} THEN None ELSE FindCall(src, Min(after), expected_fn)
       IN IF found = None THEN None
          ELSE Some([stmt |-> found[1], indent |-> IndentAt(src, line_number)])

\* rewrite_inline_snapshot: None for an error
rewrite_inline_snapshot(w, source_path, line_number, new_value, expected_fn) ==
  IF source_path # SourcePath THEN None
  ELSE LET location == find_inline_argument(w.source, line_number, expected_fn)
       IN IF location = None THEN None
          ELSE Some([w EXCEPT
                  !.source[location[1].stmt].inline =
                     Some(generate_inline_literal(new_value, location[1].indent)),
                  !.rewrote = @ \cup {location[1].stmt}])

\* str::rsplit("::").next(), then str::split('(').next()
FunctionNameOf(source_meta) ==
  LET tail == SubSeq(source_meta, LastPos(source_meta, "::") + 1, Len(source_meta))
  IN Render(BaseName(tail))

Ok(w) == [w |-> w, error |-> None]
Err(w, kind, message) == [w |-> w, error |-> Some([kind |-> kind, message |-> message])]

\* accept_pending
accept_pending(w, pending) ==
  LET snapshot == read_snapshot(w, pending)
      inline == /\ IsSome(snapshot)
                /\ IsSome(snapshot[1].metadata.inline_source)
                /\ IsSome(snapshot[1].metadata.inline_line)
  IN IF inline
     THEN LET r == rewrite_inline_snapshot(w, snapshot[1].metadata.inline_source[1],
                                           snapshot[1].metadata.inline_line[1],
                                           trim_end(snapshot[1].content),
                                           IF IsSome(snapshot[1].metadata.source)
                                           THEN Some(FunctionNameOf(snapshot[1].metadata.source[1]))
                                           ELSE None)
          IN IF r = None THEN Err(w, "NotFound", "Could not find inline= argument") ELSE Ok(fs_remove_file(r[1], pending))
     ELSE IF strip_new(pending) = None THEN Err(w, "InvalidInput", "Not a .snap.new file")
     ELSE IF pending \notin DOMAIN w.disk THEN Err(w, "NotFound", "No such file")
     ELSE Ok(fs_rename(w, pending, strip_new(pending)[1]))

\* a reject that removes the committed snapshot as well
reject_pending_and_committed(w, pending) ==
  IF pending \notin DOMAIN w.disk THEN Err(w, "NotFound", "No such file")
  ELSE Ok(fs_remove_file(fs_remove_file(w, pending), strip_new(pending)[1]))

\* reject_pending
reject_pending(w, pending) ==
  IF pending \notin DOMAIN w.disk THEN Err(w, "NotFound", "No such file")
  ELSE Ok(fs_remove_file(w, pending))

(***************************************************************************)
(* The settings stack.  A filter is a pattern and a replacement; a pattern *)
(* is one character, or a text that is no regular expression.              *)
(***************************************************************************)
InvalidPattern == "("

\* is_allow_duplicates_active
is_allow_duplicates_active(frames) == \E i \in 1..Len(frames) : frames[i].allow_duplicates

\* the filters of the frames in the given order, frame after frame
RECURSIVE Collect(_)
Collect(frames) == IF frames = <<>> THEN <<>> ELSE frames[1].filters \o Collect(Tail(frames))

\* a collection that starts from the innermost frame
CollectInnermostFirst(frames) == Collect(Reverse(frames))

\* SnapshotFilter::apply and apply_filters: every filter in turn, over the
\* result of the one before
ApplyFilter(text, filter) ==
  [i \in 1..Len(text) |-> IF text[i] = filter[1] THEN filter[2] ELSE text[i]]

RECURSIVE apply_filters(_, _)
apply_filters(text, compiled) ==
  IF compiled = <<>> THEN text
  ELSE apply_filters(ApplyFilter(text, compiled[1]), Tail(compiled))

\* filters applied from the innermost frame outwards
apply_active_filters_innermost_first(frames, input) ==
  LET compiled == CollectInnermostFirst(frames)
  IN IF \E i \in 1..Len(compiled) : compiled[i][1] = InvalidPattern THEN None
     ELSE Some(apply_filters(input, compiled))

\* apply_active_filters: None for the ValueError of an invalid pattern
apply_active_filters(frames, input) ==
  LET compiled == Collect(frames)
  IN IF \E i \in 1..Len(compiled) : compiled[i][1] = InvalidPattern THEN None
     ELSE Some(apply_filters(input, compiled))

(***************************************************************************)
(* The snapshot assertions.                                                *)
(***************************************************************************)
\* an update mode that any value of the variable switches on
update_mode_any_value(e) == IsSome(e)

\* std::env::var(KARVA_SNAPSHOT_UPDATE).is_ok_and(|v| v == "1" || v == "true")
update_mode(e) == IsSome(e) /\ e[1] \in {"1", "true"}

\* the source recorded in the metadata: file:line::test_name
SourceOf(test_file, lineno, test_name) ==
  <<file_name(test_file), ":", ToString(lineno), "::">> \o test_name

\* handle_inline_snapshot
handle_inline_snapshot(w0, actual, inline_value, test_file, test_name, update, lineno) ==
  LET w == [w0 EXCEPT !.serialized = Some(actual)]
      expected == dedent(inline_value)
      is_empty == inline_value = <<>>
      matches == ~is_empty /\ trim_end(expected) = trim_end(actual)
      snapshot_name == test_name \o <<"_inline_", ToString(lineno)>>
      snap_path == snapshot_path(test_file, file_stem(test_file), snapshot_name)
      pending_snapshot ==
        [metadata |-> [source |-> Some(SourceOf(test_file, lineno, test_name)),
                       inline_source |-> Some(SourcePath),
                       inline_line |-> Some(lineno)],
         content |-> actual]
  IN IF matches THEN Ok(w)
     ELSE IF update
     THEN LET r == rewrite_inline_snapshot(w, SourcePath, lineno, actual, None)
          IN IF r = None
             THEN Err(w, "SnapshotMismatchError", "Failed to update inline snapshot")
             ELSE Ok(r[1])
     ELSE Err(write_pending_snapshot([w EXCEPT !.resolved = Some(snap_path)],
                                     snap_path, pending_snapshot),
              "SnapshotMismatchError",
              IF is_empty THEN "New inline snapshot" ELSE "Inline snapshot mismatch")

\* a comparison that takes trailing whitespace into account
SameContentExact(stored, serialized) == stored = serialized

\* a comparison that trims the new value only
SameContentTrimmedNew(stored, serialized) == stored = trim_end(serialized)

\* existing.content.trim_end() == serialized.trim_end()
SameContent(stored, serialized) == trim_end(stored) = trim_end(serialized)

\* the rest of assert_snapshot_impl once the snapshot has its name
FileSnapshot(w0, serialized, snapshot_name, update, lineno) ==
  LET test_file == w0.ctx[1].test_file
      snap_path == snapshot_path(test_file, file_stem(test_file), Sanitize(snapshot_name))
      w == [w0 EXCEPT !.resolved = Some(snap_path), !.serialized = Some(serialized)]
      new_snapshot ==
        [metadata |-> [NoMetadata EXCEPT
                         !.source = Some(SourceOf(test_file, lineno, w.ctx[1].test_name))],
         content |-> serialized]
      existing == read_snapshot(w, snap_path)
  IN IF IsSome(existing)
     THEN IF SameContent(existing[1].content, serialized) THEN Ok(w)
          ELSE IF update THEN Ok(write_snapshot(w, snap_path, new_snapshot))
          ELSE Err(write_pending_snapshot(w, snap_path, new_snapshot), "SnapshotMismatchError",
                   "Snapshot mismatch")
     ELSE IF update THEN Ok(write_snapshot(w, snap_path, new_snapshot))
          ELSE Err(write_pending_snapshot(w, snap_path, new_snapshot), "SnapshotMismatchError",
                   "New snapshot")

\* a count that a failing call does not add to
UnnamedSnapshotCountedOnSuccess(w, frames, update, serialized, lineno) ==
  LET counter == w.ctx[1].counter
      counted == [w EXCEPT !.ctx[1].counter = @ + 1]
      allow_duplicates == is_allow_duplicates_active(frames)
  IN IF counter > 0 /\ ~allow_duplicates
     THEN Err(w, "TypeError", "Multiple unnamed snapshots in one test")
     ELSE FileSnapshot(counted, serialized,
                       compute_snapshot_name(w.ctx[1].test_name, counter, allow_duplicates),
                       update, lineno)

\* assert_snapshot_impl without name= and inline=: the counter is read and
\* incremented, then checked
UnnamedSnapshot(w, frames, update, serialized, lineno) ==
  LET counter == w.ctx[1].counter
      counted == [w EXCEPT !.ctx[1].counter = @ + 1]
      allow_duplicates == is_allow_duplicates_active(frames)
  IN IF counter > 0 /\ ~allow_duplicates
     THEN Err(counted, "TypeError", "Multiple unnamed snapshots in one test")
     ELSE FileSnapshot(counted, serialized,
                       compute_snapshot_name(w.ctx[1].test_name, counter, allow_duplicates),
                       update, lineno)

\* an assertion that lets name= win over inline=
assert_snapshot_impl_name_wins(w, frames, update, serialized, inline, name, lineno) ==
  IF w.ctx = None THEN Err(w, "RuntimeError", "called outside of a karva test context")
  ELSE IF IsSome(name)
  THEN FileSnapshot(w, serialized, compute_named_snapshot(w.ctx[1].test_name, name[1]),
                    update, lineno)
  ELSE IF IsSome(inline)
  THEN handle_inline_snapshot(w, serialized, inline[1], w.ctx[1].test_file,
                              w.ctx[1].test_name, update, lineno)
  ELSE UnnamedSnapshot(w, frames, update, serialized, lineno)

\* assert_snapshot_impl
assert_snapshot_impl(w, frames, update, serialized, inline, name, lineno) ==
  IF IsSome(inline) /\ IsSome(name)
  THEN Err(w, "TypeError", "cannot use both 'inline' and 'name' arguments")
  ELSE IF w.ctx = None THEN Err(w, "RuntimeError", "called outside of a karva test context")
  ELSE IF IsSome(inline)
  THEN handle_inline_snapshot(w, serialized, inline[1], w.ctx[1].test_file,
                              w.ctx[1].test_name, update, lineno)
  ELSE IF IsSome(name)
  THEN FileSnapshot(w, serialized, compute_named_snapshot(w.ctx[1].test_name, name[1]),
                    update, lineno)
  ELSE UnnamedSnapshot(w, frames, update, serialized, lineno)

\* assert_snapshot: the filters, then assert_snapshot_impl
assert_snapshot(w, frames, update, value, inline, name, lineno) ==
  LET serialized == apply_active_filters(frames, value)
  IN IF serialized = None THEN Err(w, "ValueError", "Invalid regex pattern in snapshot filter")
     ELSE assert_snapshot_impl(w, frames, update, serialized[1], inline, name, lineno)

(***************************************************************************)
(* The snapshot engine as a state machine: a test process that sets the    *)
(* snapshot context, enters and leaves settings scopes and executes the    *)
(* snapshot calls of the test file it has loaded, and the accept and       *)
(* reject commands.                                                        *)
(***************************************************************************)
MaxSteps == 6

\* the world an operation starts from
World ==
  [disk |-> disk, source |-> source, ctx |-> SNAPSHOT_CONTEXT, run_pending |-> run_pending,
   resolved |-> None, serialized |-> None,
   written |-> {}, removed |-> {}, rewrote |-> {}, overwrote |-> {}]

Before ==
  <<[disk |-> disk, source |-> source, ctx |-> SNAPSHOT_CONTEXT, stack |-> SNAPSHOT_SETTINGS,
     accepted |-> accepted, origin |-> origin]>>

\* what an operation leaves behind
Settle(op, r, call, target) ==
  /\ disk' = r.w.disk
  /\ source' = r.w.source
  /\ SNAPSHOT_CONTEXT' = r.w.ctx
  /\ run_pending' = r.w.run_pending
  /\ started' = started
  /\ origin' = {o \in origin : o.path \in DOMAIN r.w.disk /\ o.path \notin r.w.written}
                 \cup (IF call = <<>> THEN {}
                       ELSE {[path |-> q, stmt |-> call[1].stmt] :
                               q \in {x \in r.w.written : x.ext = ".snap.new"}})
  /\ accepted' = (accepted \ (r.w.written \cup r.w.removed))
                    \cup (IF op = "accept" /\ r.error = None THEN r.w.written ELSE {})
  /\ snap' = [op |-> op, error |-> r.error, before |-> Before, call |-> call,
              target |-> target, resolved |-> r.w.resolved, serialized |-> r.w.serialized,
              written |-> r.w.written, removed |-> r.w.removed,
              rewrote |-> r.w.rewrote, overwrote |-> r.w.overwrote]

Step == steps < MaxSteps /\ steps' = steps + 1

\* the inputs: the values of the environment variable and the sets of
\* arguments of a parametrized test
EnvValues == {None, Some("1"), Some("true"), Some("0"), Some("TRUE")}
ParamMenu == {<<>>, <<"(", "x=1", ")">>}
\* a test process starts: the thread-locals have their initial values and
\* the test file is imported
StartProcess ==
  /\ Step
  /\ env' \in EnvValues
  /\ SNAPSHOT_CONTEXT' = None
  /\ SNAPSHOT_SETTINGS' = <<>>
  /\ loaded' = source
  /\ raised' = FALSE
  /\ run_pending' = {}
  /\ started' = {}
  /\ snap' = [NoSnap EXCEPT !.op = "start", !.before = Before]
  /\ UNCHANGED <<orchvars, runner_vars, disk, source, accepted, origin>>

\* set_snapshot_context, called by the runner before a test variant, once
\* the variant before it has left its settings scopes; a process runs a
\* variant once
set_snapshot_context ==
  /\ Step
  /\ SNAPSHOT_SETTINGS = <<>>
  /\ raised' = FALSE
  /\ \E i \in 1..Len(loaded), params \in ParamMenu :
       /\ loaded[i].k = "def"
       /\ <<loaded[i].fn>> \o params \notin started
       /\ started' = started \cup {<<loaded[i].fn>> \o params}
       /\ SNAPSHOT_CONTEXT' = Some([test_file |-> TestFile,
                                    test_name |-> <<loaded[i].fn>> \o params,
                                    counter |-> 0])
  /\ snap' = [NoSnap EXCEPT !.op = "set_snapshot_context", !.before = Before]
  /\ UNCHANGED <<orchvars, runner_vars, env, SNAPSHOT_SETTINGS, disk, source, loaded, run_pending,
                 accepted, origin>>

\* the statements of the test function under way, or any statement when no
\* test is under way
Executable(i, kind) ==
  /\ ~raised
  /\ loaded[i].k = kind
  /\ IF SNAPSHOT_CONTEXT = None THEN TRUE
     ELSE containing_function_name(loaded, i) =
            Some(Render(BaseName(SNAPSHOT_CONTEXT[1].test_name)))

\* SnapshotSettings::__enter__, from a with statement of the loaded test file
SnapshotSettings_enter ==
  /\ Step
  /\ \E i \in 1..Len(loaded) :
       /\ Executable(i, "with")
       /\ SNAPSHOT_SETTINGS' = Append(SNAPSHOT_SETTINGS, loaded[i].frame[1])
  /\ snap' = [NoSnap EXCEPT !.op = "enter", !.before = Before]
  /\ UNCHANGED <<orchvars, runner_vars, env, SNAPSHOT_CONTEXT, disk, source, loaded, raised, run_pending,
                 accepted, started, origin>>

\* SnapshotSettings::__exit__, of the scope entered last
SnapshotSettings_exit ==
  /\ Step
  /\ SNAPSHOT_SETTINGS # <<>>
  /\ SNAPSHOT_SETTINGS' = SubSeq(SNAPSHOT_SETTINGS, 1, Len(SNAPSHOT_SETTINGS) - 1)
  /\ snap' = [NoSnap EXCEPT !.op = "exit", !.before = Before]
  /\ UNCHANGED <<orchvars, runner_vars, env, SNAPSHOT_CONTEXT, disk, source, loaded, raised, run_pending,
                 accepted, started, origin>>

\* karva.assert_snapshot, from a call of the loaded test file
AssertSnapshot ==
  /\ Step
  /\ \E i \in 1..Len(loaded) :
       /\ Executable(i, "call")
       /\ \E lineno \in {FirstLine(loaded, i)} :
          \E r \in {assert_snapshot(World, SNAPSHOT_SETTINGS, update_mode(env),
                                    loaded[i].value,
                                    IF IsSome(loaded[i].inline)
                                    THEN Some(Evaluate(loaded[i].inline[1])) ELSE None,
                                    loaded[i].name, lineno)} :
            /\ Settle("assert_snapshot", r,
                   <<[value |-> loaded[i].value, name |-> loaded[i].name,
                      inline |-> loaded[i].inline, lineno |-> lineno, stmt |-> i,
                      update |-> update_mode(env)]>>, <<>>)
            /\ raised' = (IsSome(r.error) /\ ~loaded[i].caught)
  /\ UNCHANGED <<orchvars, runner_vars, env, SNAPSHOT_SETTINGS, loaded>>

\* find_pending_snapshots: the files whose name ends in ".snap.new"
find_pending_snapshots == {p \in DOMAIN disk : p.ext = ".snap.new"}

\* karva snapshot accept, of one pending snapshot
Accept ==
  /\ Step
  /\ \E pending \in find_pending_snapshots :
       Settle("accept", accept_pending(World, pending), <<>>, <<pending>>)
  /\ UNCHANGED <<orchvars, runner_vars, env, SNAPSHOT_SETTINGS, loaded, raised>>

\* karva snapshot reject, of one pending snapshot
Reject ==
  /\ Step
  /\ \E pending \in find_pending_snapshots :
       Settle("reject", reject_pending(World, pending), <<>>, <<pending>>)
  /\ UNCHANGED <<orchvars, runner_vars, env, SNAPSHOT_SETTINGS, loaded, raised>>

(***************************************************************************)
(* Properties.                                                             *)
(***************************************************************************)
\* the last handler was execute_test_variant and it called the test function
IsVariantRun == last.op = "execute_test_variant" /\ last.body # <<>>

\* the last handler cleaned a scope up
IsCleanup == last.cleaned # <<>>

LastOutcome == last.body[Len(last.body)]

Count(s, x) == Cardinality({i \in 1..Len(s) : s[i] = x})

\* the two sequences hold the same elements the same number of times
SameElements(s, t) ==
  /\ Len(s) = Len(t)
  /\ \A x \in Range(s) \cup Range(t) : Count(s, x) = Count(t, x)

CacheOfScope(cache, s) == {e \in cache : e.scope = s}

AllVariants ==
  {VariantC(p, m, t, v) : p \in Packages, m \in 1..NumModules, t \in 1..NumTests, v \in 1..NumVariants}

\* every finalizer set up for the scope just cleaned has run, and the scope's
\* two caches are empty
Released ==
  /\ SameElements(last.ran, last.setup)
  /\ \A s \in Range(last.cleaned) :
       finalizer_cache[s] = <<>> /\ CacheOfScope(fixture_cache, s) = {}

\* C1: fixture memoization: a user-defined fixture is invoked at most once
\* while its scope container is open, and a value served from the cache is the
\* value of the very fixture that was asked for (entries are told apart by
\* qualified name and scope)
C1_FixtureMemoization ==
  /\ {f \in last.twice : is_user_defined(f)} = {}
  /\ \A h \in last.hits : h[2] = h[1]

\* C2: teardown is LIFO: whenever a scope is cleaned up, its finalizers run in
\* exactly the reverse of the order in which their setups completed
C2_TeardownLIFO == IsCleanup => last.ran = Reverse(last.setup)

\* C3: every finalizer a setup produced runs exactly once, at the cleanup of
\* its scope and not before the container it was set up for has finished;
\* nothing is left at the end of the session; a setup registers at most one
\* finalizer and a cache hit registers none
C3_FinalizerExactlyOnce ==
  /\ IsCleanup => SameElements(last.ran, last.setup)
  /\ ~IsCleanup => last.ran = <<>>
  /\ \A i \in 1..Len(last.ran) : last.ran[i].owner = last.container
  /\ pc = "done" => \A s \in Scopes : finalizer_cache[s] = <<>> /\ setup_log[s] = <<>>
  /\ \A i \in 1..Len(last.created) :
       Count([j \in 1..Len(last.created) |-> last.created[j].fix], last.created[i].fix)
         <= Count(last.invoked, last.created[i].fix)

\* C4: a variant rejected by the tag filter or by the name filter is recorded
\* as Skipped with no reason, whatever its skip tag says, and neither its
\* body nor any fixture is invoked for it
C4_FilterClosure ==
  (last.op = "execute_test_variant" /\ (variant.tag_reject \/ variant.name_reject)) =>
    /\ last.result = <<"Skipped">>
    /\ last.reason = <<>>
    /\ last.body = <<>>
    /\ last.invoked = <<>> /\ last.hits = {} /\ last.created = <<>> /\ last.ran = <<>>

\* a variant with a skip tag and fixtures to set up, rejected by the tag filter
C4_Witness ==
  /\ last.op = "execute_test_variant"
  /\ variant.tag_reject /\ variant.skip # <<>> /\ variant.deps # <<>>
  /\ last.result = <<"Skipped">>

C6_FailureIsolation ==
  (last.op = "execute_test_variant" /\ last.errs # <<>>) =>
    /\ last.result = <<"Failed">>
    /\ \A f \in Range(last.invoked) :
         (is_user_defined(f) /\ f \notin Range(last.errs)) =>
           \E e \in last.cached_after_setup : e.val = f /\ e.scope = scope(f)
    /\ SameElements(last.ran, last.setup)

\* C7: a finalizer that yields again or raises leaves a diagnostic and nothing
\* else: every finalizer pending for the scope still runs, one diagnostic is
\* reported per misbehaving user fixture, and the scope's caches are cleared
C7_BadFinalizerDoesNotAbort ==
  IsCleanup =>
    /\ SameElements(last.ran, last.pending)
    /\ \A s \in Range(last.cleaned) :
         finalizer_cache[s] = <<>> /\ CacheOfScope(fixture_cache, s) = {}
    /\ Len(last.diags) =
         Cardinality({i \in 1..Len(last.ran) :
                        /\ OutcomeOf(last.ran[i], last.bad) # "exhausted"
                        /\ is_user_defined(last.ran[i].fix)})

\* a misbehaving finalizer that is not the last one to run
C7_Witness ==
  /\ IsCleanup
  /\ last.diags # <<>>
  /\ \E i \in 1..(Len(last.ran) - 1) : OutcomeOf(last.ran[i], last.bad) # "exhausted"

\* the outcome of a call would be recorded as something other than Passed
NonPassing(o) == classify_test_result(o, variant.expect_fail, FALSE).kind # "Passed"

\* C8: retries: at most retry + 1 calls of the test function; a further call
\* is made exactly when the previous outcome is non-passing and retries are
\* left; no fixture whose setup completed is set up twice for the variant
C8_Retries ==
  IsVariantRun =>
    /\ Len(last.body) <= settings.retry + 1
    /\ \A i \in 1..(Len(last.body) - 1) : NonPassing(last.body[i])
    /\ NonPassing(LastOutcome) => Len(last.body) = settings.retry + 1
    /\ \A f \in Range(last.invoked) : f \notin Range(last.errs) => Count(last.invoked, f) = 1

\* the classification as stated, with ExpectedFailure for an expected error
StatedKind(o, expect_fail) ==
  CASE o = "ok" /\ ~expect_fail -> "Passed"
    [] o = "ok" /\ expect_fail -> "Failed"
    [] o = "skip" -> "Skipped"
    [] o = "error" /\ expect_fail -> "ExpectedFailure"
    [] o = "error" /\ ~expect_fail -> "Failed"

\* the same, with an expected error registered as Passed
RegisteredKind(o, expect_fail) ==
  CASE o = "ok" /\ ~expect_fail -> "Passed"
    [] o = "ok" /\ expect_fail -> "Failed"
    [] o = "skip" -> "Skipped"
    [] o = "error" /\ expect_fail -> "Passed"
    [] o = "error" /\ ~expect_fail -> "Failed"

\* C9 as stated: exactly one result per executed variant, of the stated kind
C9_Classification_Stated ==
  IsVariantRun => last.result = <<StatedKind(LastOutcome, variant.expect_fail)>>

\* C9: exactly one result is registered per executed variant, and its kind is
\* a function of the last body outcome and the expect_fail tag: Passed for a
\* normal return, Failed for a normal return under expect_fail, Skipped for
\* the skip sentinel with or without expect_fail, Passed for any other error
\* under expect_fail and Failed otherwise
C9_Classification ==
  IsVariantRun => last.result = <<RegisteredKind(LastOutcome, variant.expect_fail)>>

\* an ordinary error raised by a test tagged expect_fail
C9_Witness ==
  /\ IsVariantRun /\ variant.expect_fail
  /\ LastOutcome = "error"
  /\ last.result = <<"Passed">>

\* C10: fail-fast: once a variant has been registered as Failed nothing
\* further is started, only cleanups remain; every executed variant ends with
\* one function cleanup; by the end the session and every package and module
\* that was entered have been cleaned up exactly once and no finalizer is
\* left; without fail-fast every variant is reached
C10_FailFast ==
  /\ (settings.fail_fast /\ failed_seen) =>
       pc \in {"module_end", "package_end", "session_end", "done"}
  /\ IsVariantRun => last.cleaned = <<"function">>
  /\ closed.more = {}
  /\ pc = "done" =>
       /\ closed.once = entered
       /\ \A s \in Scopes : finalizer_cache[s] = <<>> /\ setup_log[s] = <<>>
  /\ (~settings.fail_fast /\ pc = "done") => visited = AllVariants

\* a run cut short by a failure, with the module, the open packages and the
\* session all cleaned up
C10_Witness ==
  /\ settings.fail_fast /\ failed_seen /\ pc = "done"
  /\ visited # AllVariants
  /\ {SessionC, PackageC(RootPackage)} \subseteq closed.once
  /\ \E c \in closed.once : c[1] = "module"

(***************************************************************************)
(* Properties of the snapshot engine.                                      *)
(***************************************************************************)
\* the last operation was a snapshot assertion that got as far as the
\* snapshot file of a file snapshot
IsFileSnapshot ==
  snap.op = "assert_snapshot" /\ snap.call[1].inline = None /\ IsSome(snap.resolved)

\* the snapshots directory before the last operation
DiskBefore == snap.before[1].disk

PendingOf(path) == [path EXCEPT !.ext = ".snap.new"]

\* a text without the whitespace at its end
Strip(s) ==
  SubSeq(s, 1, Max({i \in 0..Len(s) : i = 0 \/ s[i] \notin {" ", "\n", "\t"}}))

\* a file is as it was before the last operation
Untouched(path) ==
  IF path \in DOMAIN DiskBefore
  THEN path \in DOMAIN disk /\ disk[path] = DiskBefore[path]
  ELSE path \notin DOMAIN disk

\* C11: a file snapshot whose .snap exists passes and writes nothing when the
\* stored content equals the serialized value up to trailing whitespace; when
\* it differs, update mode overwrites the .snap with the new content, passes
\* and writes no .snap.new, and without update mode a .snap.new with the new
\* content is written, the .snap stays as it was and the call fails.
C11_TargetExists ==
  (IsFileSnapshot /\ snap.resolved[1] \in DOMAIN DiskBefore) =>
    LET target == snap.resolved[1]
        stored == DiskBefore[target].body
        new == snap.serialized[1]
    IN IF Strip(stored) = Strip(new)
       THEN snap.error = None /\ snap.written = {} /\ disk = DiskBefore
       ELSE IF snap.call[1].update
       THEN /\ snap.error = None
            /\ snap.written = {target}
            /\ disk[target].body = new
            /\ Untouched(PendingOf(target))
       ELSE /\ IsSome(snap.error)
            /\ snap.written = {PendingOf(target)}
            /\ disk[PendingOf(target)].body = new
            /\ Untouched(target)

\* a mismatch against an existing .snap without update mode
C11_Witness ==
  /\ IsFileSnapshot
  /\ snap.resolved[1] \in DOMAIN DiskBefore
  /\ Strip(DiskBefore[snap.resolved[1]].body) # Strip(snap.serialized[1])
  /\ ~snap.call[1].update
  /\ PendingOf(snap.resolved[1]) \in DOMAIN disk

\* KARVA_SNAPSHOT_UPDATE is "1" or "true"
UpdateRequested == env = <<"1">> \/ env = <<"true">>

\* C12: a file snapshot whose .snap is missing writes the .snap and passes,
\* creating no .snap.new, when KARVA_SNAPSHOT_UPDATE is "1" or "true"; for
\* any other value, and when the variable is unset, it writes the .snap.new,
\* creates no .snap and fails.
C12_TargetMissing ==
  (IsFileSnapshot /\ snap.resolved[1] \notin DOMAIN DiskBefore) =>
    LET target == snap.resolved[1]
        new == snap.serialized[1]
    IN /\ snap.call[1].update = UpdateRequested
       /\ IF UpdateRequested
          THEN /\ snap.error = None
               /\ snap.written = {target}
               /\ disk[target].body = new
               /\ Untouched(PendingOf(target))
          ELSE /\ IsSome(snap.error)
               /\ snap.written = {PendingOf(target)}
               /\ disk[PendingOf(target)].body = new
               /\ target \notin DOMAIN disk

\* a first snapshot written straight to its .snap under KARVA_SNAPSHOT_UPDATE=true
C12_Witness ==
  /\ IsFileSnapshot
  /\ snap.resolved[1] \notin DOMAIN DiskBefore
  /\ env = <<"true">>
  /\ snap.resolved[1] \in DOMAIN disk
  /\ snap.error = None

\* the last operation was a file snapshot assertion whose .snap is a pending
\* file accepted earlier, and the value is the accepted one
IsRerun ==
  /\ IsFileSnapshot
  /\ snap.resolved[1] \in snap.before[1].accepted
  /\ DiskBefore[snap.resolved[1]].body = snap.serialized[1]

\* C13: once the pending file of a snapshot has been accepted there is no
\* .snap.new beside the .snap, and every later assertion of the same value
\* against that .snap passes and leaves the snapshots directory as it was.
C13_Idempotence ==
  /\ \A p \in accepted : p \in DOMAIN disk
  /\ (snap.op = "accept" /\ snap.error = None /\ snap.written # {}) =>
        snap.target[1] \notin DOMAIN disk
  /\ IsRerun => (snap.error = None /\ snap.written = {} /\ disk = DiskBefore)

\* an accepted snapshot that ends in a line feed, asserted again by a later
\* test process
C13_Witness ==
  /\ IsRerun
  /\ run_pending = {}
  /\ snap.serialized[1] # Strip(snap.serialized[1])
  /\ PendingOf(snap.resolved[1]) \notin DOMAIN disk

\* the last operation was a snapshot assertion made inside a test
IsAssertion == snap.op = "assert_snapshot" /\ snap.before[1].ctx # None

CounterBefore == snap.before[1].ctx[1].counter
CounterAfter == SNAPSHOT_CONTEXT[1].counter

\* no frame of the stack the assertion ran under has allow_duplicates
NoDuplicatesAllowed ==
  \A i \in 1..Len(snap.before[1].stack) : ~snap.before[1].stack[i].allow_duplicates

\* every filter pattern of the stack the assertion ran under compiles
PatternsCompile ==
  \A i \in 1..Len(snap.before[1].stack) :
    \A j \in 1..Len(snap.before[1].stack[i].filters) :
      snap.before[1].stack[i].filters[j][1] # InvalidPattern

MultipleUnnamed ==
  /\ snap.error # None
  /\ snap.error[1].kind = "TypeError"
  /\ snap.error[1].message = "Multiple unnamed snapshots in one test"

IsUnnamed ==
  /\ IsAssertion
  /\ snap.call[1].name = None
  /\ snap.call[1].inline = None
  /\ PatternsCompile

C14_InlineAfterUnnamed ==
  /\ IsAssertion
  /\ snap.call[1].name = None
  /\ snap.call[1].inline # None
  /\ CounterBefore > 0
  /\ NoDuplicatesAllowed
  /\ snap.error = None

C15_NoPendingOverwritten ==
  snap.op = "assert_snapshot" => snap.overwrote = {}

\* the last operation was a snapshot assertion with both inline= and name=
IsBoth ==
  /\ snap.op = "assert_snapshot"
  /\ snap.call[1].name # None
  /\ snap.call[1].inline # None

RejectedAsBoth ==
  /\ snap.error # None
  /\ snap.error[1].kind = "TypeError"
  /\ snap.error[1].message = "cannot use both 'inline' and 'name' arguments"

\* the operation changed neither the counter, nor the snapshots directory,
\* nor the test file
NothingChanged ==
  /\ SNAPSHOT_CONTEXT = snap.before[1].ctx
  /\ disk = DiskBefore
  /\ source = snap.before[1].source
  /\ snap.written = {} /\ snap.removed = {} /\ snap.rewrote = {}

\* C16 as stated: an assertion with both inline= and name= fails with the
\* type error, and changes neither the counter, nor any .snap or .snap.new,
\* nor the source file.
C16_BothIsTypeError == IsBoth => (RejectedAsBoth /\ NothingChanged)

\* C16: an assertion with both inline= and name= fails before any state
\* changes, with the type error when the active filters compile and with
\* the value error of the filters when they do not.
C16_BothRejected ==
  IsBoth =>
    /\ NothingChanged
    /\ IF PatternsCompile THEN RejectedAsBoth
       ELSE snap.error # None /\ snap.error[1].kind = "ValueError"

\* the type error in update mode, in a test whose counter is above 0
C16_Witness ==
  /\ IsBoth
  /\ RejectedAsBoth
  /\ UpdateRequested
  /\ IsAssertion
  /\ CounterBefore > 0
  /\ CounterAfter = CounterBefore

\* the first n filters of a frame, one after the other
RECURSIVE FiltersUpTo(_, _, _)
FiltersUpTo(text, filters, n) ==
  IF n = 0 THEN text
  ELSE [i \in 1..Len(text) |->
          IF FiltersUpTo(text, filters, n - 1)[i] = filters[n][1] THEN filters[n][2]
          ELSE FiltersUpTo(text, filters, n - 1)[i]]

\* the filters of the n outermost frames, the outermost frame first
RECURSIVE FramesUpTo(_, _, _)
FramesUpTo(text, frames, n) ==
  IF n = 0 THEN text
  ELSE FiltersUpTo(FramesUpTo(text, frames, n - 1), frames[n].filters, Len(frames[n].filters))

StackBefore == snap.before[1].stack

\* the frames of the with statements of the test file
Frames == {loaded[i].frame[1] : i \in {j \in 1..Len(loaded) : loaded[j].k = "with"}}

SettingsStack ==
  /\ snap.op = "enter" =>
       \E f \in Frames : SNAPSHOT_SETTINGS = StackBefore \o <<f>>
  /\ snap.op = "exit" =>
       StackBefore = SNAPSHOT_SETTINGS \o <<StackBefore[Len(StackBefore)]>>
  /\ (IsAssertion /\ PatternsCompile /\ snap.serialized # None) =>
       snap.serialized[1] = FramesUpTo(snap.call[1].value, StackBefore, Len(StackBefore))
  /\ snap.op = "assert_snapshot" => SNAPSHOT_SETTINGS = StackBefore
  /\ (IsUnnamed /\ CounterBefore > 0) => (MultipleUnnamed <=> NoDuplicatesAllowed)
  /\ (IsUnnamed /\ snap.resolved # None) =>
       snap.resolved[1].stem =
         "snapshots/test__" \o Render(BaseName(snap.before[1].ctx[1].test_name))
           \o (IF NoDuplicatesAllowed THEN "" ELSE "-" \o ToString(CounterBefore))
           \o Render(ParamSuffix(snap.before[1].ctx[1].test_name))

\* leaving the scope entered last gives back the stack from before the enter
ExitRestores ==
  (snap.op = "enter" /\ snap'.op = "exit") => SNAPSHOT_SETTINGS' = StackBefore

\* C17: entering a settings scope pushes one frame and leaving it pops that
\* frame, so that an enter followed by its exit gives back the stack; an
\* assertion applies the filters of all frames of the stack, the outermost
\* frame first, and duplicates are allowed iff some frame of the stack sets
\* allow_duplicates.
C17_SettingsStack == []SettingsStack /\ [][ExitRestores]_vars

\* a second unnamed assertion allowed by the outer scope of two
C17_DuplicatesFromOuterFrame ==
  /\ IsUnnamed
  /\ CounterBefore > 0
  /\ Len(StackBefore) = 2
  /\ StackBefore[1].allow_duplicates
  /\ ~StackBefore[2].allow_duplicates
  /\ snap.error = None

\* an assertion under two scopes whose filters give another text in the
\* other order
C17_Witness ==
  /\ IsAssertion
  /\ Len(StackBefore) = 2
  /\ snap.serialized # None
  /\ snap.serialized[1] # FramesUpTo(snap.call[1].value, Reverse(StackBefore), 2)

\* the last operation was an accept; the pending file it was given and the
\* bytes the file had
IsAccept == snap.op = "accept"
Pending == snap.target[1]
PendingBytes == DiskBefore[Pending]
SourceBefore == snap.before[1].source

HasKey(head, key) == \E i \in 1..Len(head) : head[i].key = key

IsInlinePending ==
  HasKey(PendingBytes.head, "inline_source") /\ HasKey(PendingBytes.head, "inline_line")

\* the line the pending file records
RecordedLine ==
  CHOOSE n \in LineNumbers :
    \E i \in 1..Len(PendingBytes.head) :
      /\ PendingBytes.head[i].key = "inline_line"
      /\ Render(PendingBytes.head[i].value) = ToString(n)

\* the call of the test file that wrote the pending file
OriginStmt == (CHOOSE o \in snap.before[1].origin : o.path = Pending).stmt

\* the inline literal of a call stands for a text, up to the whitespace at its end
LiteralHolds(stmt, text) ==
  stmt.inline # None /\ Strip(dedent(Evaluate(stmt.inline[1]))) = Strip(text)

\* C18: accept of a pending file with inline_source and inline_line rewrites
\* the inline literal of the call it was recorded for to the pending content
\* and deletes the .snap.new, creating no .snap; accept of any other pending
\* file renames it, so that the .snap.new is gone and the .snap holds the
\* bytes the pending file had.
C18_Accept ==
  IsAccept =>
    /\ snap.error = None
    /\ IF IsInlinePending
       THEN /\ LiteralHolds(source[OriginStmt], PendingBytes.body)
            /\ \A j \in 1..Len(source) : j # OriginStmt => source[j] = SourceBefore[j]
            /\ disk = [q \in DOMAIN DiskBefore \ {Pending} |-> DiskBefore[q]]
       ELSE /\ Pending \notin DOMAIN disk
            /\ [Pending EXCEPT !.ext = ".snap"] \in DOMAIN disk
            /\ disk[[Pending EXCEPT !.ext = ".snap"]] = PendingBytes
            /\ \A q \in (DOMAIN disk \cup DOMAIN DiskBefore)
                         \ {Pending, [Pending EXCEPT !.ext = ".snap"]} : Untouched(q)
            /\ source = SourceBefore

\* the recorded line of the pending file is above the call that wrote it
IsStale == IsAccept /\ IsInlinePending /\ FirstLine(SourceBefore, OriginStmt) > RecordedLine

\* the snapshot calls between the recorded line and the call that wrote the
\* pending file whose literal stands for their value
Intervening ==
  {j \in 1..(OriginStmt - 1) :
     /\ SourceBefore[j].k = "call"
     /\ FirstLine(SourceBefore, j) >= RecordedLine
     /\ LiteralHolds(SourceBefore[j], SourceBefore[j].value)}

\* C20: accept of an inline pending file whose recorded line is above its
\* call rewrites the literal of that call and leaves every intervening call
\* with a correct literal as it was, in another function or in the same one.
C20_StaleLineSafety ==
  IsStale =>
    /\ snap.error = None
    /\ LiteralHolds(source[OriginStmt], PendingBytes.body)
    /\ \A j \in Intervening : source[j] = SourceBefore[j]

\* the function a statement of the test file is in
FunctionOf(j) == containing_function_name(SourceBefore, j)

\* the stale accept with an intervening call in another function only
StaleAcrossFunctions ==
  /\ IsStale
  /\ Intervening # {}
  /\ \A j \in Intervening : FunctionOf(j) # FunctionOf(OriginStmt)

\* the stale accept with an intervening call in the same function
StaleInsideFunction ==
  /\ IsStale
  /\ \E j \in Intervening : FunctionOf(j) = FunctionOf(OriginStmt)

IsReject == snap.op = "reject"

\* C19: reject deletes the pending file it is given and nothing else: every
\* other file of the snapshots directory and the test file, inline literals
\* included, are as they were.
C19_Reject ==
  IsReject =>
    /\ snap.error = None
    /\ Pending \notin DOMAIN disk
    /\ \A q \in (DOMAIN disk \cup DOMAIN DiskBefore) \ {Pending} : Untouched(q)
    /\ source = SourceBefore

\* an inline pending file rejected, the literal of its call still empty
C19_Witness ==
  /\ IsReject
  /\ IsInlinePending
  /\ source[OriginStmt] = SourceBefore[OriginStmt]
  /\ ~LiteralHolds(source[OriginStmt], PendingBytes.body)

\* a pending file rejected beside its committed snapshot
C19_CommittedKept ==
  /\ IsReject
  /\ [Pending EXCEPT !.ext = ".snap"] \in DOMAIN disk

\* the package-scope values in the cache that another package than the one
\* finishing produced
ForeignPackageValues ==
  {e \in fixture_cache : e.scope = "package" /\ e.val.mp[2] # Top.pkg}

PackageEndKeepsForeign ==
  pc = "package_end" => ForeignPackageValues \subseteq fixture_cache'

\* C26: the cleanup at the end of a package runs the finalizers of that
\* package only and clears the cached values of that package only, so that
\* a package-scope fixture stays cached and not finalized while its package
\* is open.
C26_PackageLifetime ==
  /\ [](last.op = "clean_up_package" =>
          \A i \in 1..Len(last.ran) : last.ran[i].owner = last.container)
  /\ [][PackageEndKeepsForeign]_vars

\* the container a module or a package is executed in
Parent(c) ==
  CASE c[1] = "module" -> PackageC(c[2])
    [] c[1] = "package" -> IF c[2] = RootPackage THEN SessionC ELSE PackageC(RootPackage)
    [] OTHER -> SessionC

Next ==
  \/ Execute_Begin
  \/ ExecutePackage_Begin
  \/ ExecuteModule_Begin
  \/ NextVariant
  \/ ExecuteTestVariant
  \/ ExecuteModule_End
  \/ ExecutePackage_End
  \/ Execute_End

Spec == Init /\ [][Next]_vars

(***************************************************************************)
(* The snapshot engine on its own: the test files and the snapshots        *)
(* directory it starts from.                                               *)
(***************************************************************************)
EmptyLiteral == <<"\"", "\"">>
FixedLiteral == <<"\"", "fixed", "\"">>
ThreeLines == <<"a", "\n", "b", "\n", "c">>

\* file snapshots, named and unnamed, under settings scopes
FileTests ==
  <<Other, Other, Other,
    Def("test_a"),
    With(<<>>, TRUE),
    With(<< <<"a", "b">> >>, FALSE),
    With(<< <<"b", "c">> >>, FALSE),
    With(<< <<InvalidPattern, "c">> >>, FALSE),
    Call(<<"a">>, None, None),
    Call(<<"b">>, None, None),
    Try(Call(<<"a", "\n">>, Some("x"), None)),
    Call(<<"b">>, Some("x"), None),
    Call(<<"a">>, Some("x"), Some(EmptyLiteral)),
    Call(<<"fixed">>, None, Some(FixedLiteral))>>

\* inline snapshots in three functions, the second one already correct
InlineTests ==
  <<Other, Other, Other,
    Def("test_first"), Call(ThreeLines, None, Some(EmptyLiteral)), Other,
    Def("test_middle"), Call(<<"fixed">>, None, Some(FixedLiteral)), Other,
    Def("test_third"), Call(<<"hello">>, None, Some(EmptyLiteral))>>

\* inline snapshots, two of them in one function, the first one already correct
InlineTestsSameFunction ==
  <<Other, Other, Other,
    Def("test_first"), Call(ThreeLines, None, Some(EmptyLiteral)), Other,
    Def("test_third"), Call(<<"fixed">>, None, Some(FixedLiteral)),
                       Call(<<"hello">>, None, Some(EmptyLiteral))>>

Sources == {FileTests, InlineTests, InlineTestsSameFunction}

SnapshotInit ==
  /\ suite = "snapshots"
  /\ settings = [fail_fast |-> FALSE, retry |-> 0]
  /\ RunnerStart
  /\ OrchIdle
  /\ env \in EnvValues
  /\ SNAPSHOT_CONTEXT = None
  /\ SNAPSHOT_SETTINGS = <<>>
  /\ disk = NoFiles
  /\ source \in Sources
  /\ loaded = source
  /\ raised = FALSE
  /\ run_pending = {}
  /\ accepted = {}
  /\ started = {}
  /\ origin = {}
  /\ steps = 0
  /\ snap = NoSnap

SnapshotNext ==
  \/ StartProcess
  \/ set_snapshot_context
  \/ SnapshotSettings_enter
  \/ SnapshotSettings_exit
  \/ AssertSnapshot
  \/ Accept
  \/ Reject

SnapshotSpec == SnapshotInit /\ [][SnapshotNext]_vars

(***************************************************************************)
(* The inline rewriter on its own: one test with one inline snapshot, the  *)
(* values and the spellings of the literal it starts from, and the         *)
(* rewriter applied to any line, value and function name.                  *)
(***************************************************************************)
SingleQuoted == <<"'", "hello", "'">>
WrongLiteral == <<"\"", "wrong", "\"">>

InlineValues ==
  {<<"hello">>, <<" ", "x">>, <<>>, <<"a", "\n", "b">>, <<" ", "a", "\n", " ", "b">>,
   <<"a", "\n">>}

InlineLiterals == {EmptyLiteral, SingleQuoted, WrongLiteral}

InlineSources ==
  {<<Other, Other, Other, Def("test_a"), Call(v, None, Some(l)), Other>> :
     v \in InlineValues, l \in InlineLiterals}

InlineInit ==
  /\ suite = "inline"
  /\ settings = [fail_fast |-> FALSE, retry |-> 0]
  /\ RunnerStart
  /\ OrchIdle
  /\ env \in EnvValues
  /\ SNAPSHOT_CONTEXT = None
  /\ SNAPSHOT_SETTINGS = <<>>
  /\ disk = NoFiles
  /\ source \in InlineSources
  /\ loaded = source
  /\ raised = FALSE
  /\ run_pending = {}
  /\ accepted = {}
  /\ started = {}
  /\ origin = {}
  /\ steps = 0
  /\ snap = NoSnap

\* how many rewrites in a row are explored
MaxRewrites == 2

\* rewrite_inline_snapshot, applied to the test file as it is
RewriteInline ==
  /\ Step
  /\ steps < MaxRewrites
  /\ \E line \in 0..(LineCount(source) + 1), value \in InlineValues,
        fn \in {None, Some("test_a"), Some("test_b")} :
       \E res \in {rewrite_inline_snapshot(World, SourcePath, line, value, fn)} :
         Settle("rewrite",
                IF res = None THEN Err(World, "NotFound", "Could not find inline= argument")
                ELSE Ok(res[1]),
                <<[value |-> value, lineno |-> line, fn |-> fn, stmt |-> 0]>>, <<>>)
  /\ UNCHANGED <<orchvars, runner_vars, env, SNAPSHOT_SETTINGS, loaded, raised>>

InlineNext ==
  \/ StartProcess
  \/ set_snapshot_context
  \/ AssertSnapshot
  \/ Accept

InlineSpec == InlineInit /\ [][InlineNext]_vars

\* the rewriter alone, as a function of the file, the line, the value and
\* the function name
RewriteInit == InlineInit /\ env = None

RewriteSpec == RewriteInit /\ [][RewriteInline]_vars

(***************************************************************************)
(* Test runs and the accept command as wholes: a run executes every test   *)
(* of the file in turn, and "karva snapshot accept" takes every pending    *)
(* file in the order of its path.                                          *)
(***************************************************************************)
\* the characters of the paths, in the order of their bytes
ByteOrder ==
  <<"(", ")", "-", ".", "/", "0", "1", "2", "3", "4", "5", "6", "7", "8", "9", "=", "_",
    "a", "b", "c", "d", "e", "f", "g", "h", "i", "j", "k", "l", "m", "n", "o", "p", "q",
    "r", "s", "t", "u", "v", "w", "x", "y", "z">>
Byte(ch) == CHOOSE i \in 1..Len(ByteOrder) : ByteOrder[i] = ch

\* str::cmp, as Less
RECURSIVE StrLess(_, _)
StrLess(a, b) ==
  IF b = "" THEN FALSE
  ELSE IF a = "" THEN TRUE
  ELSE IF Head(a) = Head(b) THEN StrLess(Tail(a), Tail(b))
  ELSE Byte(Head(a)) < Byte(Head(b))

PathLess(p, q) == StrLess(p.stem \o p.ext, q.stem \o q.ext)

\* Vec::sort_by of the pending paths
RECURSIVE SortByPath(_)
SortByPath(paths) ==
  IF paths = {} THEN <<>>
  ELSE LET least == CHOOSE p \in paths : \A q \in paths \ {p} : PathLess(p, q)
       IN <<least>> \o SortByPath(paths \ {least})

\* the loop of the accept command: it ends at the first error
RECURSIVE AcceptEach(_, _)
AcceptEach(w, todo) ==
  IF todo = <<>> THEN Ok(w)
  ELSE LET r == Bind(w, LAMBDA x : accept_pending(x, todo[1]))
       IN IF IsSome(r.error) THEN r ELSE AcceptEach(r.w, Tail(todo))

\* karva snapshot accept, without a path filter
AcceptAll ==
  /\ Step
  /\ find_pending_snapshots # {}
  /\ \E todo \in {SortByPath(find_pending_snapshots)} :
       Settle("accept_all", AcceptEach(World, todo), <<>>, todo)
  /\ UNCHANGED <<orchvars, runner_vars, env, SNAPSHOT_SETTINGS, loaded, raised>>

\* one snapshot call of a run; the pending file it writes is the call's
RunCall(st, file, i, update) ==
  LET r == Bind(st, LAMBDA x :
                  assert_snapshot([x.w EXCEPT !.written = {}], <<>>, update, file[i].value,
                                  IF IsSome(file[i].inline)
                                  THEN Some(Evaluate(file[i].inline[1])) ELSE None,
                                  file[i].name, FirstLine(file, i)))
  IN [w |-> [r.w EXCEPT !.written = @ \cup st.w.written],
      raised |-> IsSome(r.error) /\ ~file[i].caught,
      failed |-> st.failed \cup (IF IsSome(r.error) THEN {i} ELSE {}),
      origin |-> {o \in st.origin : o.path \in DOMAIN r.w.disk /\ o.path \notin r.w.written}
                   \cup {[path |-> q, stmt |-> i] :
                           q \in {x \in r.w.written : x.ext = ".snap.new"}}]

\* the tests of the file as imported, in turn: the context is set before
\* each test, and an exception ends the test it is raised in
RECURSIVE RunStatements(_, _, _, _)
RunStatements(st, file, i, update) ==
  IF i > Len(file) THEN st
  ELSE IF file[i].k = "def"
  THEN RunStatements([st EXCEPT !.w.ctx = Some([test_file |-> TestFile,
                                                test_name |-> <<file[i].fn>>,
                                                counter |-> 0]),
                                !.raised = FALSE],
                     file, i + 1, update)
  ELSE IF file[i].k = "call" /\ ~st.raised
  THEN RunStatements(RunCall(st, file, i, update), file, i + 1, update)
  ELSE RunStatements(st, file, i + 1, update)

\* karva test, of the whole file in one process
RunTests ==
  /\ Step
  /\ env' \in EnvValues
  /\ loaded' = source
  /\ SNAPSHOT_SETTINGS' = <<>>
  /\ \E st \in {RunStatements([w |-> [World EXCEPT !.ctx = None, !.run_pending = {}],
                               raised |-> FALSE, failed |-> {}, origin |-> origin],
                              source, 1, update_mode(env'))} :
       /\ disk' = st.w.disk
       /\ source' = st.w.source
       /\ SNAPSHOT_CONTEXT' = st.w.ctx
       /\ run_pending' = st.w.run_pending
       /\ raised' = st.raised
       /\ origin' = st.origin
       /\ accepted' = accepted \ (st.w.written \cup st.w.removed)
       /\ started' = {<<source[i].fn>> : i \in {j \in 1..Len(source) : source[j].k = "def"}}
       /\ snap' = [NoSnap EXCEPT !.op = "run", !.before = Before,
                                 !.error = IF st.failed = {} THEN None
                                           ELSE Some([kind |-> "SnapshotMismatchError",
                                                      message |-> "failed"]),
                                 !.written = st.w.written, !.removed = st.w.removed,
                                 !.rewrote = st.w.rewrote, !.overwrote = st.w.overwrote]
  /\ UNCHANGED <<orchvars, runner_vars>>

\* the file of test_inline_multiline_accept_rerun_duplicate_pending
DuplicatePendingTests ==
  <<Other, Other, Other,
    Def("test_first"), Call(ThreeLines, None, Some(EmptyLiteral)), Other,
    Def("test_second"), Call(<<"world">>, None, Some(EmptyLiteral))>>

ReviewSources == {DuplicatePendingTests, InlineTests, InlineTestsSameFunction}

ReviewInit ==
  /\ suite = "review"
  /\ settings = [fail_fast |-> FALSE, retry |-> 0]
  /\ RunnerStart
  /\ OrchIdle
  /\ env = None
  /\ SNAPSHOT_CONTEXT = None
  /\ SNAPSHOT_SETTINGS = <<>>
  /\ disk = NoFiles
  /\ source \in ReviewSources
  /\ loaded = source
  /\ raised = FALSE
  /\ run_pending = {}
  /\ accepted = {}
  /\ started = {}
  /\ origin = {}
  /\ steps = 0
  /\ snap = NoSnap

ReviewNext ==
  \/ RunTests
  \/ Accept
  \/ AcceptAll

ReviewSpec == ReviewInit /\ [][ReviewNext]_vars

(***************************************************************************)
(* The command line: karva test and the worker process.  A collaborator    *)
(* answers "ok", or fails with an error whose chain holds an io::Error of  *)
(* kind BrokenPipe ("broken_pipe") or with any other error ("error").      *)
(***************************************************************************)
\* ExitStatus as u8
ExitCode(status) == CASE status = "Success" -> 0 [] status = "Failure" -> 1 [] status = "Error" -> 2

Done(status, reached) == [status |-> Some(status), error |-> None, reached |-> reached]
Failed(kind, reached) == [status |-> None, error |-> Some(kind), reached |-> reached]

\* TestRunStatistics::is_success: no test failed
is_success(stats) == stats.failed = 0

\* test, from the dry run on
test_from_dry_run(inv) ==
  IF inv.dry_run
  THEN IF inv.collect # "ok" THEN Failed(inv.collect, {"collect_tests"})
       ELSE IF inv.print # "ok"
       THEN Failed(inv.print, {"collect_tests", "print_collected_tests"})
       ELSE Done("Success", {"collect_tests", "print_collected_tests"})
  ELSE IF inv.filters # "ok" THEN Failed(inv.filters, {})
  ELSE IF inv.watch
  THEN IF inv.run # "ok" THEN Failed(inv.run, {"run_watch_loop"})
       ELSE Done("Success", {"run_watch_loop"})
  ELSE IF inv.run # "ok" THEN Failed(inv.run, {"run_parallel_tests"})
  ELSE IF inv.print # "ok" THEN Failed(inv.print, {"run_parallel_tests", "print_test_output"})
  ELSE Done(IF is_success(inv.stats) /\ inv.discovery_diagnostics = 0
            THEN "Success" ELSE "Failure",
            {"run_parallel_tests", "print_test_output"})

\* test, were the two flags not compared
test_flags_not_compared(inv) ==
  IF inv.cwd # "ok" THEN Failed(inv.cwd, {})
  ELSE IF inv.metadata # "ok" THEN Failed(inv.metadata, {})
  ELSE test_from_dry_run(inv)

\* test
test(inv) ==
  IF inv.cwd # "ok" THEN Failed(inv.cwd, {})
  ELSE IF inv.metadata # "ok" THEN Failed(inv.metadata, {})
  ELSE IF inv.watch /\ inv.dry_run THEN Failed("error", {})
  ELSE test_from_dry_run(inv)

\* run of the karva binary
run(inv) ==
  IF inv.argfile # "ok" THEN Failed(inv.argfile, {})
  ELSE IF inv.command = "test" THEN test(inv)
  ELSE IF inv.print # "ok" THEN Failed(inv.print, {"version"})
  ELSE Done("Success", {"version"})

\* the closure of karva_main and of karva_worker_main, were a broken pipe
\* an error like any other
unwrap_or_else_pipe_is_error(r) ==
  [r EXCEPT !.status = IF r.error = None THEN r.status ELSE Some("Error")]

\* the closure of karva_main and of karva_worker_main: the status of an
\* error
unwrap_or_else(r) ==
  [r EXCEPT !.status = IF r.error = None THEN r.status
                       ELSE IF r.error[1] = "broken_pipe" THEN Some("Success")
                       ELSE Some("Error")]

karva_main(inv) == unwrap_or_else(run(inv))

\* run of the worker binary
worker_run(inv) ==
  IF inv.argfile # "ok" THEN Failed(inv.argfile, {})
  ELSE IF inv.cwd # "ok" THEN Failed(inv.cwd, {})
  ELSE IF inv.filters # "ok" THEN Failed(inv.filters, {})
  ELSE IF inv.write_result # "ok" THEN Failed(inv.write_result, {"run_tests"})
  ELSE Done("Success", {"run_tests", "write_result"})

karva_worker_main(inv) == unwrap_or_else(worker_run(inv))

\* the answers of a collaborator that writes to a stream, and of one that
\* does not
Answers == {"ok", "error", "broken_pipe"}
PlainAnswers == {"ok", "error"}
MaxFailed == 1
MaxDiagnostics == 1

Stats == [passed : 0..1, failed : 0..MaxFailed]

Invocations ==
  [program : {"karva"}, command : {"test", "version"}, argfile : PlainAnswers,
   watch : BOOLEAN, dry_run : BOOLEAN, cwd : PlainAnswers, metadata : PlainAnswers,
   collect : PlainAnswers, filters : PlainAnswers, run : Answers, print : Answers,
   write_result : {"ok"}, stats : Stats, discovery_diagnostics : 0..MaxDiagnostics]
  \cup
  [program : {"karva-worker"}, command : {"run"}, argfile : PlainAnswers,
   watch : {FALSE}, dry_run : {FALSE}, cwd : PlainAnswers, metadata : {"ok"},
   collect : {"ok"}, filters : PlainAnswers, run : {"ok"}, print : {"ok"},
   write_result : Answers, stats : Stats, discovery_diagnostics : 0..MaxDiagnostics]

CliInit ==
  /\ suite = "cli"
  /\ settings = [fail_fast |-> FALSE, retry |-> 0]
  /\ RunnerStart
  /\ SnapshotIdle
  /\ invocation \in Invocations
  /\ outcome = <<>>
  /\ unassigned = <<>>
  /\ partitions = <<>>
  /\ placed = <<>>
  /\ ScanIdle
  /\ WatchIdle
  /\ ListIdle

\* the karva process, from its start to its exit
KarvaMain ==
  /\ invocation.program = "karva"
  /\ outcome = <<>>
  /\ outcome' = <<karva_main(invocation)>>
  /\ UNCHANGED <<runner_vars, snapvars, scanvars, watchvars, listvars, invocation, unassigned, partitions, placed>>

\* a worker process, from its start to its exit
KarvaWorkerMain ==
  /\ invocation.program = "karva-worker"
  /\ outcome = <<>>
  /\ outcome' = <<karva_worker_main(invocation)>>
  /\ UNCHANGED <<runner_vars, snapvars, scanvars, watchvars, listvars, invocation, unassigned, partitions, placed>>

CliNext ==
  \/ KarvaMain
  \/ KarvaWorkerMain

CliSpec == CliInit /\ [][CliNext]_vars

(***************************************************************************)
(* The accept command after the test file was edited: the pending files    *)
(* of a run may point at lines that hold their call no longer.             *)
(***************************************************************************)
CallsOf(src) == {i \in 1..Len(src) : src[i].k = "call"}

\* what an edit of the test file can leave: the file cut short, a call
\* replaced by another statement, a call without its inline= argument
Edits(src) ==
  {SubSeq(src, 1, n) : n \in 0..(Len(src) - 1)}
    \cup {[src EXCEPT ![i] = Other] : i \in CallsOf(src)}
    \cup {[src EXCEPT ![i].inline = None] : i \in {j \in CallsOf(src) : IsSome(src[j].inline)}}

\* an edit of the test file as the last run loaded it
EditSource ==
  /\ Step
  /\ source = loaded
  /\ source' \in Edits(source)
  /\ snap' = [NoSnap EXCEPT !.op = "edit", !.before = Before]
  /\ UNCHANGED <<orchvars, runner_vars, env, SNAPSHOT_CONTEXT, SNAPSHOT_SETTINGS, disk, loaded,
                 raised, run_pending, accepted, started, origin>>

Streams == {"ok", "broken_pipe"}

\* writeln!(stdout, ...)?
Writeln(w, stdout) == IF stdout = "ok" THEN Ok(w) ELSE Err(w, "BrokenPipe", "stdout")

\* a loop of the accept command that goes on after an error
RECURSIVE snapshot_accept_keeps_going(_, _, _)
snapshot_accept_keeps_going(w, filtered, stdout) ==
  IF filtered = <<>> THEN Writeln(w, stdout)
  ELSE LET r == Bind(w, LAMBDA x : accept_pending(x, filtered[1]))
           rest == Bind(r.w, LAMBDA x : snapshot_accept_keeps_going(x, Tail(filtered), stdout))
       IN IF IsSome(r.error) THEN Err(rest.w, r.error[1].kind, r.error[1].message)
          ELSE IF stdout # "ok" THEN Writeln(r.w, stdout)
          ELSE rest

\* snapshot, SnapshotAction::Accept: the loop over the filtered pending
\* snapshots and the summary line
RECURSIVE snapshot_accept(_, _, _)
snapshot_accept(w, filtered, stdout) ==
  IF filtered = <<>> THEN Writeln(w, stdout)
  ELSE LET r == Bind(w, LAMBDA x : accept_pending(x, filtered[1]))
       IN IF IsSome(r.error) THEN r
          ELSE IF stdout # "ok" THEN Writeln(r.w, stdout)
          ELSE snapshot_accept(r.w, Tail(filtered), stdout)

\* run, for the error of a command
FailedWith(error) ==
  Failed(IF error.kind = "BrokenPipe" THEN "broken_pipe" ELSE "error", {"snapshot"})

\* karva snapshot accept without a path filter, from its start to its exit
SnapshotAcceptCommand ==
  /\ Step
  /\ \E stdout \in Streams :
     \E filtered \in {SortByPath(find_pending_snapshots)} :
     \E r \in {snapshot_accept(World, filtered, stdout)} :
       /\ Settle("snapshot_accept", r, <<>>, filtered)
       /\ outcome' = <<unwrap_or_else(IF r.error = None THEN Done("Success", {"snapshot"})
                                      ELSE FailedWith(r.error[1]))>>
  /\ UNCHANGED <<invocation, unassigned, partitions, placed, scanvars, watchvars, listvars,
                 runner_vars, env, SNAPSHOT_SETTINGS, loaded, raised>>

\* accept_pending, called with the path of any file of the snapshots
\* directory
AcceptPath ==
  /\ Step
  /\ \E path \in DOMAIN disk :
       Settle("accept_pending", accept_pending(World, path), <<>>, <<path>>)
  /\ UNCHANGED <<orchvars, runner_vars, env, SNAPSHOT_SETTINGS, loaded, raised>>

AcceptSources == {DuplicatePendingTests, FileTests}

AcceptInit ==
  /\ suite = "accept"
  /\ settings = [fail_fast |-> FALSE, retry |-> 0]
  /\ RunnerStart
  /\ OrchIdle
  /\ env = None
  /\ SNAPSHOT_CONTEXT = None
  /\ SNAPSHOT_SETTINGS = <<>>
  /\ disk = NoFiles
  /\ source \in AcceptSources
  /\ loaded = source
  /\ raised = FALSE
  /\ run_pending = {}
  /\ accepted = {}
  /\ started = {}
  /\ origin = {}
  /\ steps = 0
  /\ snap = NoSnap

AcceptNext ==
  \/ RunTests
  \/ EditSource
  \/ SnapshotAcceptCommand
  \/ AcceptPath

AcceptSpec == AcceptInit /\ [][AcceptNext]_vars

(***************************************************************************)
(* The partitioner of the orchestrator: the tests, each with its last      *)
(* known duration or none, are sorted by duration, longest first, and      *)
(* assigned one by one to the worker with the smallest load.               *)
(***************************************************************************)
MaxWorkers == 3
MaxPartitionTests == 3
MaxDuration == 2
\* the duration of a test when no duration is known at all
DefaultDuration == 1

\* the number of workers test hands to the orchestrator
num_workers(inv) ==
  IF inv.no_parallel THEN 1
  ELSE IF IsSome(inv.num_workers) THEN inv.num_workers[1]
  ELSE inv.max_parallelism

RECURSIVE Sum(_)
Sum(s) == IF s = <<>> THEN 0 ELSE Head(s) + Sum(Tail(s))

\* the duration a test is weighed with: its own, or the mean of the known
\* ones, or the default
Known(ts) == SelectSeq(ts, LAMBDA d : IsSome(d))
Weight(ts, i) ==
  IF IsSome(ts[i]) THEN ts[i][1]
  ELSE IF Known(ts) = <<>> THEN DefaultDuration
  ELSE Sum([k \in 1..Len(Known(ts)) |-> Known(ts)[k][1]]) \div Len(Known(ts))

\* the orders of the tests with the longest first
LongestFirst(ts) ==
  {q \in [1..Len(ts) -> 1..Len(ts)] :
     /\ \A i, j \in 1..Len(ts) : i # j => q[i] # q[j]
     /\ \A i \in 1..(Len(ts) - 1) : Weight(ts, q[i]) >= Weight(ts, q[i + 1])}

\* the workers a test may go to, were it the first worker whatever its load
FirstWorker(bins) == {1}

\* the workers a test may go to: those with the smallest load
LeastLoaded(bins) == {w \in 1..Len(bins) : \A v \in 1..Len(bins) : bins[w].load <= bins[v].load}

PartitionInputs ==
  [no_parallel : BOOLEAN, num_workers : {None} \cup {Some(n) : n \in 1..MaxWorkers},
   max_parallelism : 1..MaxWorkers,
   tests : UNION {[1..n -> {None} \cup {Some(d) : d \in 1..MaxDuration}] :
                    n \in 0..MaxPartitionTests}]

PartitionInit ==
  /\ suite = "partition"
  /\ settings = [fail_fast |-> FALSE, retry |-> 0]
  /\ RunnerStart
  /\ SnapshotIdle
  /\ invocation \in PartitionInputs
  /\ outcome = <<>>
  /\ unassigned = <<>>
  /\ partitions = <<>>
  /\ placed = <<>>
  /\ ScanIdle
  /\ WatchIdle
  /\ ListIdle

\* the tests are sorted and every worker gets an empty partition
SortTests ==
  /\ partitions = <<>>
  /\ unassigned' \in LongestFirst(invocation.tests)
  /\ partitions' = [w \in 1..num_workers(invocation) |-> [tests |-> {}, load |-> 0]]
  /\ placed' = <<>>
  /\ UNCHANGED <<runner_vars, snapvars, scanvars, watchvars, listvars, invocation, outcome>>

\* the longest test not yet assigned goes to a worker with the smallest load
AssignNext ==
  /\ partitions # <<>>
  /\ unassigned # <<>>
  /\ \E w \in LeastLoaded(partitions) :
       /\ partitions' = [partitions EXCEPT
                           ![w].tests = @ \cup {Head(unassigned)},
                           ![w].load = @ + Weight(invocation.tests, Head(unassigned))]
       /\ placed' = <<[test |-> Head(unassigned), worker |-> w, before |-> partitions]>>
  /\ unassigned' = Tail(unassigned)
  /\ UNCHANGED <<runner_vars, snapvars, scanvars, watchvars, listvars, invocation, outcome>>

PartitionNext ==
  \/ SortTests
  \/ AssignNext

PartitionSpec == PartitionInit /\ [][PartitionNext]_vars

(***************************************************************************)
(* The arguments of a test variant.  function_arguments is a HashMap, kept *)
(* here as the sequence of its entries <<key, value>>; a variant's params  *)
(* are a HashMap too, and the sequence is the order in which the loop      *)
(* meets them.  A fixture dependency is given with what run_fixture        *)
(* returns for it.                                                         *)
(***************************************************************************)
NumRowValues == 2
ArgumentNames == {"x", "y"}
RowValues == {<<"row", i>> : i \in 1..NumRowValues}
FixtureValue(name) == <<"fixture", name>>

Keys(map) == {map[i][1] : i \in 1..Len(map)}
EntriesOf(map, key) == {i \in 1..Len(map) : map[i][1] = key}

\* an insert that leaves the value of a key the map already holds
insert_keeps_value(map, key, value) ==
  IF key \in Keys(map) THEN map ELSE Append(map, <<key, value>>)

\* HashMap::insert; PyDict::set_item
insert(map, key, value) ==
  IF key \in Keys(map)
  THEN [i \in 1..Len(map) |-> IF map[i][1] = key THEN <<key, value>> ELSE map[i]]
  ELSE Append(map, <<key, value>>)

\* the loop over the fixture dependencies
RECURSIVE InsertFixtures(_, _, _)
InsertFixtures(fixture_dependencies, i, function_arguments) ==
  IF i > Len(fixture_dependencies) THEN function_arguments
  ELSE InsertFixtures(fixture_dependencies, i + 1,
         IF fixture_dependencies[i].ok
         THEN insert(function_arguments, fixture_dependencies[i].name,
                     FixtureValue(fixture_dependencies[i].name))
         ELSE function_arguments)

\* a loop that inserts every entry of a map into another
RECURSIVE InsertAll(_, _, _)
InsertAll(entries, i, map) ==
  IF i > Len(entries) THEN map
  ELSE InsertAll(entries, i + 1, insert(map, entries[i][1], entries[i][2]))

\* the function arguments setup_test_fixtures returns
function_arguments(x) == InsertAll(x.params, 1, InsertFixtures(x.fixture_dependencies, 1, <<>>))

\* the errors setup_test_fixtures returns
fixture_call_errors(x) ==
  SelectSeq([i \in 1..Len(x.fixture_dependencies) |-> x.fixture_dependencies[i].name],
            LAMBDA n : \E i \in 1..Len(x.fixture_dependencies) :
                          x.fixture_dependencies[i].name = n /\ ~x.fixture_dependencies[i].ok)

\* the sequences that hold every element of a set once
Orders(S) == {q \in [1..Cardinality(S) -> S] : \A i, j \in 1..Cardinality(S) : q[i] = q[j] => i = j}

ParametrizedVariants ==
  {[fixture_dependencies |-> [i \in 1..Len(names) |-> [name |-> names[i], ok |-> oks[i]]],
    params |-> [i \in 1..Len(keys) |-> <<keys[i], values[i]>>]] :
     <<names, oks, keys, values>> \in
       UNION {UNION {Orders(F) \X [1..Cardinality(F) -> BOOLEAN]
                       \X Orders(P) \X [1..Cardinality(P) -> RowValues] :
                     P \in SUBSET ArgumentNames} : F \in SUBSET ArgumentNames}}

ArgumentsInit ==
  /\ suite = "arguments"
  /\ settings = [fail_fast |-> FALSE, retry |-> 0]
  /\ pc = "setup_test_fixtures"
  /\ stack = <<>>
  /\ modf = NoModule
  /\ variant \in ParametrizedVariants
  /\ fixture_cache = EmptyFixtureCache
  /\ finalizer_cache = EmptyFinalizerCache
  /\ calls = {}
  /\ failed_seen = FALSE
  /\ entered = {}
  /\ closed = [once |-> {}, more |-> {}]
  /\ visited = {}
  /\ setup_log = [s \in Scopes |-> <<>>]
  /\ last = NoObs
  /\ OrchIdle
  /\ SnapshotIdle

\* execute_test_variant, its call of setup_test_fixtures
SetupTestFixtures ==
  /\ pc = "setup_test_fixtures"
  /\ last' = [NoObs EXCEPT !.op = "setup_test_fixtures",
                           !.args = function_arguments(variant),
                           !.errs = fixture_call_errors(variant)]
  /\ pc' = "run_test"
  /\ UNCHANGED <<orchvars, snapvars, suite, settings, stack, modf, variant, fixture_cache,
                 finalizer_cache, calls, failed_seen, entered, closed, visited, setup_log>>

\* execute_test_variant, the keyword arguments of the call of the test:
\* last.body is the dictionary the test function is called with
RunTest ==
  /\ pc = "run_test"
  /\ \E order \in Orders(1..Len(last.args)) :
       last' = [last EXCEPT !.op = "run_test",
                            !.body = InsertAll([i \in 1..Len(order) |-> last.args[order[i]]], 1, <<>>)]
  /\ pc' = "ran"
  /\ UNCHANGED <<orchvars, snapvars, suite, settings, stack, modf, variant, fixture_cache,
                 finalizer_cache, calls, failed_seen, entered, closed, visited, setup_log>>

ArgumentsNext == SetupTestFixtures \/ RunTest

ArgumentsSpec == ArgumentsInit /\ [][ArgumentsNext]_vars

(***************************************************************************)
(* The inline scanner, character by character.  A source text is a         *)
(* sequence of characters; a word the scanner never looks inside stands as *)
(* one character ("inline=", "assert_snapshot", "def "), quotes,           *)
(* parentheses, backslashes, "#" and line feeds are characters of their    *)
(* own.  Offsets count from 0 as in the code.                              *)
(***************************************************************************)
Byte_at(src, i) == src[i + 1]

\* str::starts_with of the text from an offset
starts_with(src, i, pattern) ==
  /\ i + Len(pattern) <= Len(src)
  /\ \A k \in 1..Len(pattern) : src[i + k] = pattern[k]

Triple(quote) == <<quote, quote, quote>>

\* find_single_quote_end
RECURSIVE find_single_quote_end(_, _, _)
find_single_quote_end(src, i, quote) ==
  IF i >= Len(src) THEN None
  ELSE IF Byte_at(src, i) = "\\" THEN find_single_quote_end(src, i + 2, quote)
  ELSE IF Byte_at(src, i) = quote THEN Some(i)
  ELSE find_single_quote_end(src, i + 1, quote)

\* find_triple_quote_end
RECURSIVE find_triple_quote_end(_, _, _)
find_triple_quote_end(src, i, quote) ==
  IF i >= Len(src) THEN None
  ELSE IF Byte_at(src, i) = "\\" THEN find_triple_quote_end(src, i + 2, quote)
  ELSE IF starts_with(src, i, Triple(quote)) THEN Some(i)
  ELSE find_triple_quote_end(src, i + 1, quote)

\* the offset after a string literal that opens at an offset, None when the
\* literal is not closed; limit is the offset the check for a triple quote
\* must stay below
SkipString(src, i, limit) ==
  IF i + 2 < limit /\ Byte_at(src, i + 1) = Byte_at(src, i) /\ Byte_at(src, i + 2) = Byte_at(src, i)
  THEN Bind(find_triple_quote_end(src, i + 3, Byte_at(src, i)), LAMBDA e :
         IF e = None THEN None ELSE Some(e[1] + 3))
  ELSE Bind(find_single_quote_end(src, i + 1, Byte_at(src, i)), LAMBDA e :
         IF e = None THEN None ELSE Some(e[1] + 1))

\* the loop over a comment: the offset of the line feed that ends it
RECURSIVE SkipComment(_, _, _)
SkipComment(src, i, limit) ==
  IF i < limit /\ Byte_at(src, i) # "\n" THEN SkipComment(src, i + 1, limit) ELSE i

RECURSIVE CloseParenFrom(_, _, _)
CloseParenFrom(src, i, depth) ==
  IF i >= Len(src) THEN None
  ELSE IF Byte_at(src, i) = "(" THEN CloseParenFrom(src, i + 1, depth + 1)
  ELSE IF Byte_at(src, i) = ")"
       THEN (IF depth - 1 = 0 THEN Some(i) ELSE CloseParenFrom(src, i + 1, depth - 1))
  ELSE IF Byte_at(src, i) \in {"\"", "'"}
       THEN Bind(SkipString(src, i, Len(src)), LAMBDA e :
              IF e = None THEN None ELSE CloseParenFrom(src, e[1], depth))
  ELSE IF Byte_at(src, i) = "#"
       THEN CloseParenFrom(src, SkipComment(src, i, Len(src)) + 1, depth)
  ELSE CloseParenFrom(src, i + 1, depth)

\* a search that takes the last closing parenthesis of the text
find_matching_close_paren_of_text(src, open_pos) ==
  Bind({i \in open_pos..(Len(src) - 1) : Byte_at(src, i) = ")"}, LAMBDA closing :
    IF closing = {} THEN None ELSE Some(Max(closing)))

\* find_matching_close_paren
find_matching_close_paren(src, open_pos) == CloseParenFrom(src, open_pos, 0)

\* a keyword search that looks inside comments
RECURSIVE find_keyword_in_call_reads_comments(_, _, _, _)
find_keyword_in_call_reads_comments(src, i, end, keyword) ==
  IF i >= end THEN None
  ELSE IF Byte_at(src, i) \in {"\"", "'"}
       THEN Bind(SkipString(src, i, end), LAMBDA e :
              IF e = None THEN None ELSE find_keyword_in_call_reads_comments(src, e[1], end, keyword))
  ELSE IF starts_with(src, i, keyword) THEN Some(i)
  ELSE find_keyword_in_call_reads_comments(src, i + 1, end, keyword)

\* find_keyword_in_call
RECURSIVE find_keyword_in_call(_, _, _, _)
find_keyword_in_call(src, i, end, keyword) ==
  IF i >= end THEN None
  ELSE IF Byte_at(src, i) \in {"\"", "'"}
       THEN Bind(SkipString(src, i, end), LAMBDA e :
              IF e = None THEN None ELSE find_keyword_in_call(src, e[1], end, keyword))
  ELSE IF Byte_at(src, i) = "#"
       THEN find_keyword_in_call(src, SkipComment(src, i, end), end, keyword)
  ELSE IF starts_with(src, i, keyword) THEN Some(i)
  ELSE find_keyword_in_call(src, i + 1, end, keyword)

\* str::trim_start from an offset: the offset of the first character that is
\* not whitespace
RECURSIVE trim_start_from(_, _)
trim_start_from(src, i) ==
  IF i < Len(src) /\ Byte_at(src, i) \in Whitespace THEN trim_start_from(src, i + 1) ELSE i

\* parse_string_literal: the offsets of the literal, its quotes included
parse_string_literal(src, offset) ==
  Bind(trim_start_from(src, offset), LAMBDA trimmed_offset :
    IF \E q \in {"\"", "'"} : starts_with(src, trimmed_offset, Triple(q))
    THEN Bind(find_triple_quote_end(src, trimmed_offset + 3, Byte_at(src, trimmed_offset)),
              LAMBDA e : IF e = None THEN None ELSE Some(<<trimmed_offset, e[1] + 3>>))
    ELSE IF \E q \in {"\"", "'"} : starts_with(src, trimmed_offset, <<q>>)
    THEN Bind(find_single_quote_end(src, trimmed_offset + 1, Byte_at(src, trimmed_offset)),
              LAMBDA e : IF e = None THEN None ELSE Some(<<trimmed_offset, e[1] + 1>>))
    ELSE None)

\* SNAPSHOT_CALL_PATTERNS: the name, then the opening parenthesis
SNAPSHOT_CALL_PATTERNS ==
  {<<"assert_snapshot", "(">>, <<"assert_json_snapshot", "(">>, <<"assert_cmd_snapshot", "(">>}

\* find_snapshot_call, in the text from an offset: the offset of the
\* earliest pattern and the pattern
find_snapshot_call(src, from) ==
  Bind({<<i, pat>> \in (from..(Len(src) - 1)) \X SNAPSHOT_CALL_PATTERNS : starts_with(src, i, pat)},
       LAMBDA hits :
         IF hits = {} THEN None
         ELSE Some(CHOOSE h \in hits : \A g \in hits : h[1] <= g[1]))

\* containing_function_name, of an offset of the text: the name after the
\* last "def " that starts a line before the offset
DefPrefixes == {<<"def ">>, <<"async def ">>}

function_name_before(src, byte_pos) ==
  Bind(lines(SubSeq(src, 1, byte_pos)), LAMBDA ls :
    Bind({n \in 1..Len(ls) :
            \E d \in DefPrefixes : starts_with(ls[n], LeadingWhitespace(ls[n]), d)},
         LAMBDA defs :
           IF defs = {} THEN None
           ELSE Bind(ls[Max(defs)], LAMBDA line :
                  Bind(SubSeq(line, LeadingWhitespace(line) + 2, Len(line)), LAMBDA after_def :
                    Some(SubSeq(after_def, 1,
                                Min({k \in 1..(Len(after_def) + 1) :
                                       k = Len(after_def) + 1 \/ after_def[k] = "("}) - 1))))))

\* the offset of the start of a line, lines counted from 0
RECURSIVE LineOffset(_, _)
LineOffset(ls, idx) == IF idx = 0 THEN 0 ELSE LineOffset(ls, idx - 1) + Len(ls[idx]) + 1

\* the loop of find_inline_argument
RECURSIVE FindFrom(_, _, _, _)
FindFrom(src, search_offset, function_name_opt, indent) ==
  Bind(find_snapshot_call(src, search_offset), LAMBDA call :
    IF call = None THEN None
    ELSE Bind(call[1][1] + Len(call[1][2]) - 1, LAMBDA abs_open_paren :
      Bind(find_matching_close_paren(src, abs_open_paren), LAMBDA call_end :
        IF call_end = None THEN None
        ELSE IF /\ IsSome(function_name_opt)
                /\ IsSome(function_name_before(src, call[1][1]))
                /\ function_name_before(src, call[1][1])[1] # function_name_opt[1]
        THEN (IF call_end[1] + 1 >= Len(src) THEN None
              ELSE FindFrom(src, call_end[1] + 1, function_name_opt, indent))
        ELSE Bind(find_keyword_in_call(src, abs_open_paren, call_end[1], <<"inline=">>),
                  LAMBDA abs_inline_pos :
                    IF abs_inline_pos = None THEN None
                    ELSE IF abs_inline_pos[1] + 1 >= Len(src) THEN None
                    ELSE Bind(parse_string_literal(src, abs_inline_pos[1] + 1), LAMBDA lit :
                           IF lit = None THEN None
                           ELSE Some([start |-> lit[1][1], end |-> lit[1][2],
                                      indent |-> indent]))))))

\* find_inline_argument, of a text
FindInlineArgument(src, line_number, function_name_opt) ==
  Bind(lines(src), LAMBDA ls :
    IF line_number = 0 \/ line_number - 1 >= Len(ls) THEN None
    ELSE FindFrom(src, LineOffset(ls, line_number - 1), function_name_opt,
                  LeadingWhitespace(ls[line_number])))

\* apply_edit
apply_edit(src, start, end, replacement) ==
  SubSeq(src, 1, start) \o replacement \o SubSeq(src, end + 1, Len(src))

\* a generated literal character by character: its triple quotes as three
\* quotes
RECURSIVE Characters(_)
Characters(literal) ==
  IF literal = <<>> THEN <<>>
  ELSE (IF literal[1] = "\"\"\"" THEN Triple("\"") ELSE <<literal[1]>>) \o Characters(Tail(literal))

\* rewrite_inline_snapshot, of a text: the text written, or None with the
\* text as it was when the literal is not found
RewriteText(src, line_number, new_value, function_name_opt) ==
  Bind(FindInlineArgument(src, line_number, function_name_opt), LAMBDA loc :
    IF loc = None THEN [found |-> None, written |-> src, error |-> Some("NotFound")]
    ELSE [found |-> loc,
          written |-> apply_edit(src, loc[1].start, loc[1].end,
                                 Characters(generate_inline_literal(new_value, loc[1].indent))),
          error |-> None])

(***************************************************************************)
(* The texts the scanner is given: a test function with a snapshot call    *)
(* whose first argument, comment and inline literal hold what could        *)
(* mislead a scanner, and possibly a later call with an inline literal of  *)
(* its own.                                                                *)
(***************************************************************************)
Quotes == {"\"", "'"}
OtherQuote(q) == IF q = "\"" THEN "'" ELSE "\""

\* what a string may hold: the keyword, parentheses, a comment sign, its
\* own quote, the other quote, a backslash, a line feed
Atoms == {"inline=", "(", ")", "#", "own", "other", "backslash", "newline"}

RenderAtom(atom, q, triple) ==
  IF atom = "own" THEN (IF triple THEN <<q>> ELSE <<"\\", q>>)
  ELSE IF atom = "other" THEN <<OtherQuote(q)>>
  ELSE IF atom = "backslash" THEN <<"\\", "\\">>
  ELSE IF atom = "newline" THEN (IF triple THEN <<"\n">> ELSE <<"\\", "n">>)
  ELSE <<atom>>

\* a string literal of the guest language that holds the atom and a word
StringLiteral(q, triple, atom) ==
  (IF triple THEN Triple(q) ELSE <<q>>) \o RenderAtom(atom, q, triple) \o <<"x">>
    \o (IF triple THEN Triple(q) ELSE <<q>>)

\* an empty string literal
EmptyString(q, triple) == IF triple THEN Triple(q) \o Triple(q) ELSE <<q, q>>

HostileLiterals ==
  {StringLiteral(q, t, a) : q \in Quotes, t \in BOOLEAN, a \in Atoms}
    \cup {EmptyString(q, t) : q \in Quotes, t \in BOOLEAN}
PlainLiteral == <<"\"", "old", "\"">>
LaterLiteral == <<"\"", "later", "\"">>

\* the first argument of the call: a name, a string, a call
FirstArguments ==
  {<<"x">>, <<"f", "(", "x", ")">>, <<"f", "(", "'", ")", "'", ")">>} \cup HostileLiterals

\* a comment after the first argument, up to its line feed
Comments ==
  {<<>>} \cup {<<"#", c, "\n">> : c \in {"inline=", "(", ")", "\"", "'", "x"}}
         \cup {<<"#", "\"", "\"", "\"", "\n">>}

\* the text of a test function with the call, and the offsets of the
\* literal that follows the call's inline= keyword
TestText(argument, comment, inline, space, later) ==
  Bind(<<"def ", "test_a", "(", ")", ":", "\n", " ", " ", "assert_snapshot", "(">>
         \o argument \o <<",">> \o comment
         \o (IF inline = None THEN <<>> ELSE <<"inline=">> \o (IF space THEN <<" ">> ELSE <<>>)),
       LAMBDA before :
         Bind((IF inline = None THEN <<>> ELSE inline[1]) \o <<")", "\n">>, LAMBDA rest :
           [src |-> before \o rest
                     \o (IF later
                         THEN <<" ", " ", "assert_snapshot", "(", "y", ",", "inline=">>
                                \o LaterLiteral \o <<")", "\n">>
                         ELSE <<>>),
            real |-> IF inline = None THEN None
                     ELSE Some(<<Len(before), Len(before) + Len(inline[1])>>),
            call_line |-> 2,
            later_line |-> IF later THEN (IF comment = <<>> THEN 3 ELSE 4) ELSE 0,
            later_real |-> IF later
                           THEN Some(<<Len(before) + Len(rest) + 7,
                                       Len(before) + Len(rest) + 7 + Len(LaterLiteral)>>)
                           ELSE None]))

ScanTexts ==
  {TestText(a, c, i, FALSE, l) :
     a \in FirstArguments, c \in Comments, i \in {None, Some(PlainLiteral)}, l \in BOOLEAN}
  \cup {TestText(<<"x">>, <<>>, Some(h), sp, l) :
          h \in HostileLiterals, sp \in BOOLEAN, l \in BOOLEAN}

ScanNames == {None, Some(<<"test_a">>), Some(<<"test_b">>)}

ScanInit ==
  /\ suite = "scanner"
  /\ settings = [fail_fast |-> FALSE, retry |-> 0]
  /\ RunnerStart
  /\ SnapshotIdle
  /\ invocation = <<>>
  /\ outcome = <<>>
  /\ unassigned = <<>>
  /\ partitions = <<>>
  /\ placed = <<>>
  /\ scan_source \in ScanTexts
  /\ scan_location = <<>>
  /\ WatchIdle
  /\ ListIdle

\* rewrite_inline_snapshot, applied to the text once
RewriteInlineText ==
  /\ scan_location = <<>>
  /\ \E line \in 0..(Len(lines(scan_source.src)) + 1), fn \in ScanNames,
        value \in {<<"new">>, <<"a", "\n", "b">>} :
       \E r \in {RewriteText(scan_source.src, line, value, fn)} :
         /\ scan_location' = <<[line |-> line, fn |-> fn, value |-> value,
                               found |-> r.found, error |-> r.error,
                               before |-> scan_source.src]>>
         /\ scan_source' = [scan_source EXCEPT !.src = r.written]
  /\ UNCHANGED <<runner_vars, snapvars, watchvars, listvars, invocation, outcome, unassigned, partitions, placed>>

ScanNext == RewriteInlineText

ScanSpec == ScanInit /\ [][ScanNext]_vars

(***************************************************************************)
(* The snapshot context under the runner: execute_test_variant step by     *)
(* step for the tests of one module, with fixtures, test bodies and        *)
(* finalizers that call assert_snapshot without name= and inline=.         *)
(***************************************************************************)
TestName(t) == <<"test_" \o ToString(t)>>

\* a test: whether the setup of its fixture and the fixture's finalizer
\* assert a snapshot; the retries left and the attempts made
ContextVariants(t) ==
  [name : {TestName(t)}, setup_asserts : BOOLEAN, teardown_asserts : BOOLEAN,
   retry_count : {settings.retry}, attempts : {0}]

ContextInit ==
  /\ suite = "context"
  /\ settings \in [fail_fast : {FALSE}, retry : 0..MaxRetry]
  /\ pc = "setup_test_fixtures"
  /\ stack = <<>>
  /\ modf = [m |-> 1, passed |-> TRUE, t |-> 1, v |-> 1]
  /\ variant = NoVariant
  /\ fixture_cache = EmptyFixtureCache
  /\ finalizer_cache = EmptyFinalizerCache
  /\ calls = {}
  /\ failed_seen = FALSE
  /\ entered = {}
  /\ closed = [once |-> {}, more |-> {}]
  /\ visited = {}
  /\ setup_log = [s \in Scopes |-> <<>>]
  /\ last = NoObs
  /\ OrchIdle
  /\ env \in {None, Some("1")}
  /\ SNAPSHOT_CONTEXT = None
  /\ SNAPSHOT_SETTINGS = <<>>
  /\ disk = NoFiles
  /\ source = <<>>
  /\ loaded = <<>>
  /\ raised = FALSE
  /\ run_pending = {}
  /\ accepted = {}
  /\ started = {}
  /\ origin = {}
  /\ steps = 0
  /\ snap = NoSnap

\* a call of karva.assert_snapshot(value) from guest code, or no call
GuestAsserts(op, asserts, value) ==
  IF asserts
  THEN Settle(op, assert_snapshot(World, SNAPSHOT_SETTINGS, update_mode(env), value,
                                  None, None, 1),
              <<[value |-> value, name |-> None, inline |-> None, lineno |-> 1, stmt |-> 0,
                 update |-> update_mode(env)]>>, <<>>)
  ELSE /\ snap' = [NoSnap EXCEPT !.op = "none", !.before = Before]
       /\ UNCHANGED <<disk, source, SNAPSHOT_CONTEXT, run_pending, started, origin, accepted>>

ContextFrame ==
  UNCHANGED <<orchvars, suite, settings, stack, fixture_cache, finalizer_cache, calls,
              failed_seen, entered, closed, visited, setup_log, last,
              env, SNAPSHOT_SETTINGS, loaded, raised, steps>>

\* execute_test_variant up to setup_test_fixtures: the fixtures of the next
\* test are set up
SetupFixturesOfTest ==
  /\ pc = "setup_test_fixtures"
  /\ \E x \in ContextVariants(modf.t) :
       /\ variant' = x
       /\ GuestAsserts("fixture_setup", x.setup_asserts, <<"fixture">>)
  /\ pc' = "set_snapshot_context"
  /\ UNCHANGED modf
  /\ ContextFrame

\* execute_test_variant, its call of set_snapshot_context
SetSnapshotContextOfTest ==
  /\ pc = "set_snapshot_context"
  /\ SNAPSHOT_CONTEXT' = Some([test_file |-> TestFile, test_name |-> variant.name, counter |-> 0])
  /\ snap' = [NoSnap EXCEPT !.op = "set_snapshot_context", !.before = Before]
  /\ pc' = "run_test"
  /\ UNCHANGED <<modf, variant, disk, source, run_pending, started, origin, accepted>>
  /\ ContextFrame

\* execute_test_variant, what follows a call of run_test: the retry loop
RetryLoopStep(x, ok) ==
  IF ~ok /\ x.retry_count > 0
  THEN [variant |-> [x EXCEPT !.retry_count = @ - 1, !.attempts = @ + 1], pc |-> "run_test"]
  ELSE [variant |-> [x EXCEPT !.attempts = @ + 1], pc |-> "teardown"]

\* run_test: the body asserts a snapshot, and may fail for another reason
RunTestBody ==
  /\ pc = "run_test"
  /\ GuestAsserts("body", TRUE, <<"v">>)
  /\ \E flaky \in BOOLEAN :
       \E nx \in {RetryLoopStep(variant, snap'.error = None /\ ~flaky)} :
         /\ variant' = nx.variant
         /\ pc' = nx.pc
  /\ UNCHANGED modf
  /\ ContextFrame

\* execute_test_variant after the retry loop: the test's finalizers and
\* clean_up_scope(Function), then the loop of execute_module
TeardownOfTest ==
  /\ pc = "teardown"
  /\ GuestAsserts("finalizer", variant.teardown_asserts, <<"finalizer">>)
  /\ IF modf.t < NumTests
     THEN modf' = [modf EXCEPT !.t = @ + 1] /\ pc' = "setup_test_fixtures"
     ELSE modf' = modf /\ pc' = "module_end"
  /\ UNCHANGED variant
  /\ ContextFrame

\* execute_module after its loop: clean_up_scope(Module), whose finalizers
\* may assert a snapshot
CleanUpModule ==
  /\ pc = "module_end"
  /\ \E asserts \in BOOLEAN : GuestAsserts("module_finalizer", asserts, <<"module">>)
  /\ pc' = "done"
  /\ UNCHANGED <<modf, variant>>
  /\ ContextFrame

ContextNext ==
  \/ SetupFixturesOfTest
  \/ SetSnapshotContextOfTest
  \/ RunTestBody
  \/ TeardownOfTest
  \/ CleanUpModule

ContextSpec == ContextInit /\ [][ContextNext]_vars

(***************************************************************************)
(* The listings of the snapshot files of a directory tree.  A file name    *)
(* is a sequence of words, each standing for its characters, and a path    *)
(* is the sequence of the names of its components below the root.          *)
(***************************************************************************)
MaxFiles == 2

DirNames == {<<"d">>, <<"a", ".", "snap", ".", "new">>}

\* the directories of the tree: the root, a directory, and a directory
\* named as a pending snapshot
DirPaths == {<<>>, << <<"d">> >>, << <<"d">>, <<"a", ".", "snap", ".", "new">> >>}

FileNames ==
  {<<"a", ".", "snap">>, <<"a", ".", "snap", ".", "new">>, <<"a", ".", "SNAP">>,
   <<"a", ".", "snap", ".", "NEW">>, <<"a", ".", "SNAP", ".", "new">>,
   <<".", "snap">>, <<".", "snap", ".", "new">>, <<"snap">>, <<"a", ".", "new">>,
   <<"a", ".", "py">>}

Files == [dir : DirPaths, name : FileNames]

\* the subsets of S of at most n elements
RECURSIVE UpTo(_, _)
UpTo(S, n) ==
  IF n = 0 THEN {{}}
  ELSE UpTo(S, n - 1) \cup {A \cup {x} : A \in UpTo(S, n - 1), x \in S}

Trees ==
  [files : UpTo(Files, MaxFiles),
   unreadable : {{}} \cup {{d} : d \in DirPaths}]

\* str::ends_with
ends_with(name, suffix) ==
  /\ Len(name) >= Len(suffix)
  /\ SubSeq(name, Len(name) - Len(suffix) + 1, Len(name)) = suffix

\* Path::extension of a file name
extension(name) ==
  LET dots == {i \in 1..Len(name) : name[i] = "."}
  IN IF dots = {} \/ Max(dots) = 1 THEN None
     ELSE Some(SubSeq(name, Max(dots) + 1, Len(name)))

\* str::to_ascii_lowercase of a word
to_ascii_lowercase(word) ==
  CASE word = "SNAP" -> "snap" [] word = "NEW" -> "new" [] OTHER -> word

\* OsStr::eq_ignore_ascii_case
eq_ignore_ascii_case(a, b) ==
  /\ Len(a) = Len(b)
  /\ \A i \in 1..Len(a) : to_ascii_lowercase(a[i]) = to_ascii_lowercase(b[i])

SnapNew == <<".", "snap", ".", "new">>

\* a test of find_snapshots_recursive that compares the end of the name
is_committed_by_suffix(name) == ends_with(name, <<".", "snap">>)

\* find_snapshots_recursive, its test of a file name
is_committed(name) ==
  /\ IsSome(extension(name)) /\ eq_ignore_ascii_case(extension(name)[1], <<"snap">>)
  /\ ~ends_with(name, SnapNew)

\* find_pending_recursive, its test of a file name
is_pending(name) == ends_with(name, SnapNew)

\* find_all_snapshots_recursive, its test of a file name
is_any_snapshot(name) ==
  LET is_snap_new == ends_with(name, SnapNew)
      is_snap == /\ ~is_snap_new
                 /\ IsSome(extension(name))
                 /\ eq_ignore_ascii_case(extension(name)[1], <<"snap">>)
  IN is_snap_new \/ is_snap

\* std::fs::read_dir: the files of a directory and its sub-directories
FilesIn(t, dir) == {f \in t.files : f.dir = dir}
SubDirs(t, dir) ==
  {SubSeq(f.dir, 1, Len(dir) + 1) :
     f \in {g \in t.files : Len(g.dir) > Len(dir) /\ SubSeq(g.dir, 1, Len(dir)) = dir}}

RECURSIVE find_snapshots_recursive(_, _)
find_snapshots_recursive(t, dir) ==
  IF dir \in t.unreadable THEN {}
  ELSE {f.dir \o <<f.name>> : f \in {g \in FilesIn(t, dir) : is_committed(g.name)}}
         \cup UNION {find_snapshots_recursive(t, sub) : sub \in SubDirs(t, dir)}

RECURSIVE find_pending_recursive(_, _)
find_pending_recursive(t, dir) ==
  IF dir \in t.unreadable THEN {}
  ELSE {f.dir \o <<f.name>> : f \in {g \in FilesIn(t, dir) : is_pending(g.name)}}
         \cup UNION {find_pending_recursive(t, sub) : sub \in SubDirs(t, dir)}

RECURSIVE find_all_snapshots_recursive(_, _)
find_all_snapshots_recursive(t, dir) ==
  IF dir \in t.unreadable THEN {}
  ELSE {f.dir \o <<f.name>> : f \in {g \in FilesIn(t, dir) : is_any_snapshot(g.name)}}
         \cup UNION {find_all_snapshots_recursive(t, sub) : sub \in SubDirs(t, dir)}

\* the first byte of a word; no word of the names begins as another
WordByte(word) ==
  CASE word = "." -> 46 [] word = "NEW" -> 78 [] word = "SNAP" -> 83 [] word = "a" -> 97
    [] word = "b" -> 98 [] word = "d" -> 100 [] word = "new" -> 110 [] word = "py" -> 112 [] word = "snap" -> 115

\* <[u8] as Ord>::cmp of two names, as Less
RECURSIVE NameLess(_, _)
NameLess(a, b) ==
  IF b = <<>> THEN FALSE
  ELSE IF a = <<>> THEN TRUE
  ELSE IF Head(a) = Head(b) THEN NameLess(Tail(a), Tail(b))
  ELSE WordByte(Head(a)) < WordByte(Head(b))

\* <Path as Ord>::cmp, component by component, as Less
RECURSIVE ComponentsLess(_, _)
ComponentsLess(p, q) ==
  IF q = <<>> THEN FALSE
  ELSE IF p = <<>> THEN TRUE
  ELSE IF Head(p) = Head(q) THEN ComponentsLess(Tail(p), Tail(q))
  ELSE NameLess(Head(p), Head(q))

\* Vec::sort_by of paths
RECURSIVE SortPaths(_)
SortPaths(paths) ==
  IF paths = {} THEN <<>>
  ELSE LET least == CHOOSE p \in paths : \A q \in paths \ {p} : ComponentsLess(p, q)
       IN <<least>> \o SortPaths(paths \ {least})

\* str::strip_suffix(".new") of a path, "" when it does not end so
strip_suffix_new(path) ==
  IF path # <<>> /\ ends_with(path[Len(path)], <<".", "new">>)
  THEN [path EXCEPT ![Len(path)] = SubSeq(@, 1, Len(@) - 2)]
  ELSE <<>>

find_snapshots(t) ==
  LET sorted == SortPaths(find_snapshots_recursive(t, <<>>))
  IN [i \in 1..Len(sorted) |-> [snap_path |-> sorted[i]]]

find_pending(t) ==
  LET sorted == SortPaths(find_pending_recursive(t, <<>>))
  IN [i \in 1..Len(sorted) |->
        [pending_path |-> sorted[i], snap_path |-> strip_suffix_new(sorted[i])]]

find_all_snapshots(t) ==
  LET sorted == SortPaths(find_all_snapshots_recursive(t, <<>>))
  IN [i \in 1..Len(sorted) |-> [path |-> sorted[i]]]

NoListing == [committed |-> None, pending |-> None, all |-> None]

ListInit ==
  /\ suite = "listing"
  /\ settings = [fail_fast |-> FALSE, retry |-> 0]
  /\ RunnerStart
  /\ SnapshotIdle
  /\ invocation = <<>>
  /\ outcome = <<>>
  /\ unassigned = <<>>
  /\ partitions = <<>>
  /\ placed = <<>>
  /\ ScanIdle
  /\ WatchIdle
  /\ tree \in Trees
  /\ listing = NoListing

ListFrame ==
  UNCHANGED <<runner_vars, snapvars, scanvars, watchvars, invocation, outcome, unassigned,
              partitions, placed, tree>>

FindSnapshots ==
  /\ listing.committed = None
  /\ listing' = [listing EXCEPT !.committed = Some(find_snapshots(tree))]
  /\ ListFrame

FindPendingSnapshots ==
  /\ listing.pending = None
  /\ listing' = [listing EXCEPT !.pending = Some(find_pending(tree))]
  /\ ListFrame

FindAllSnapshots ==
  /\ listing.all = None
  /\ listing' = [listing EXCEPT !.all = Some(find_all_snapshots(tree))]
  /\ ListFrame

ListNext ==
  \/ FindSnapshots
  \/ FindPendingSnapshots
  \/ FindAllSnapshots

ListSpec == ListInit /\ [][ListNext]_vars

(***************************************************************************)
(* Watch mode: run_watch_loop, the callback of the debouncer and the       *)
(* shutdown signal.  watch_log holds, in order, the events the debouncer   *)
(* reported, the batches the loop handled and the runs it made.            *)
(***************************************************************************)
MaxEvents == 2

\* the changed paths the debouncer can report
WatchedPaths ==
  {<< <<"a", ".", "py">> >>, << <<"b", ".", "py">> >>, << <<"a", ".", "snap">> >>,
   << <<".", "py">> >>}

DebounceEvents == {E \in SUBSET WatchedPaths : E # {} /\ Cardinality(E) <= 2}

\* ParallelTestConfig of the invocation
WatchConfigs == [num_workers : {1, 2}, no_cache : {FALSE}, create_ctrlc_handler : {TRUE}]

\* the filter of the debouncer's callback
py_paths(events) ==
  {e \in events :
     LET ext == extension(e[Len(e)]) IN IsSome(ext) /\ ext[1] = <<"py">>}

EventsLogged == Cardinality({i \in 1..Len(watch_log) : watch_log[i].kind = "event"})

Event(events) == [kind |-> "event", paths |-> events, config |-> <<>>, ok |-> TRUE]
Handled(paths) == [kind |-> "handled", paths |-> paths, config |-> <<>>, ok |-> TRUE]
Run(paths, config, ok) == [kind |-> "run", paths |-> paths, config |-> <<config>>, ok |-> ok]

\* the exit of karva test --watch: run_watch_loop(...)? and Ok(Success)
WatchExit(stdout) ==
  unwrap_or_else(IF stdout = "ok" THEN Done("Success", {"run_watch_loop"})
                 ELSE Failed(stdout, {"run_watch_loop"}))

WatchInit ==
  /\ suite = "watch"
  /\ settings = [fail_fast |-> FALSE, retry |-> 0]
  /\ RunnerStart
  /\ SnapshotIdle
  /\ invocation \in WatchConfigs
  /\ outcome = <<>>
  /\ unassigned = <<>>
  /\ partitions = <<>>
  /\ placed = <<>>
  /\ ScanIdle
  /\ ListIdle
  /\ watch_pc = "start"
  /\ file_rx = <<>>
  /\ shutdown_rx = FALSE
  /\ watch_log = <<>>

WatchFrame ==
  UNCHANGED <<runner_vars, snapvars, scanvars, listvars, invocation, unassigned, partitions, placed>>

\* run_watch_loop up to its loop: the initial run, the debouncer, the
\* watching message
WatchStart ==
  /\ watch_pc = "start"
  /\ \E ok \in BOOLEAN, watcher \in {"ok", "error"}, stdout \in Streams :
       /\ watch_log' = Append(watch_log, Run(<<>>, invocation, ok))
       /\ IF watcher # "ok"
          THEN watch_pc' = "done" /\ outcome' = <<WatchExit(watcher)>>
          ELSE IF stdout # "ok"
          THEN watch_pc' = "done" /\ outcome' = <<WatchExit(stdout)>>
          ELSE watch_pc' = "select" /\ outcome' = outcome
  /\ UNCHANGED <<file_rx, shutdown_rx>>
  /\ WatchFrame

\* the callback of the debouncer, on its own thread: a loop blocked in
\* select! is woken by the send
DebouncerCallback ==
  /\ watch_pc \notin {"start", "done"}
  /\ EventsLogged < MaxEvents
  /\ \E events \in DebounceEvents :
       /\ watch_log' = Append(watch_log, Event(events))
       /\ IF py_paths(events) # {}
          THEN /\ file_rx' = Append(file_rx, SortPaths(py_paths(events)))
               /\ watch_pc' = IF watch_pc = "blocked" THEN "recv_file" ELSE watch_pc
          ELSE UNCHANGED <<file_rx, watch_pc>>
  /\ UNCHANGED <<shutdown_rx, outcome>>
  /\ WatchFrame

\* the shutdown signal is delivered to shutdown_rx: a loop blocked in
\* select! is woken by it
DeliverShutdown ==
  /\ watch_pc # "done"
  /\ ~shutdown_rx
  /\ shutdown_rx' = TRUE
  /\ watch_pc' = IF watch_pc = "blocked" THEN "recv_shutdown" ELSE watch_pc
  /\ UNCHANGED <<file_rx, watch_log, outcome>>
  /\ WatchFrame

\* crossbeam_channel::select!: one of the ready operations, or the thread
\* blocks until a sender wakes it
Select ==
  /\ watch_pc = "select"
  /\ watch_pc' \in IF ~shutdown_rx /\ file_rx = <<>> THEN {"blocked"}
                   ELSE (IF shutdown_rx THEN {"recv_shutdown"} ELSE {})
                          \cup (IF file_rx # <<>> THEN {"recv_file"} ELSE {})
  /\ UNCHANGED <<file_rx, shutdown_rx, watch_log, outcome>>
  /\ WatchFrame

\* the arm recv(shutdown_rx): break, and Ok(())
RecvShutdown ==
  /\ watch_pc = "recv_shutdown"
  /\ watch_pc' = "done"
  /\ outcome' = <<WatchExit("ok")>>
  /\ UNCHANGED <<file_rx, shutdown_rx, watch_log>>
  /\ WatchFrame

RECURSIVE Concat(_)
Concat(batches) ==
  IF batches = <<>> THEN <<>> ELSE Head(batches) \o Concat(Tail(batches))

\* a loop that handles the received batch alone
DrainFirst(rx) == [all_paths |-> rx[1], rest |-> Tail(rx)]

\* the received batch, extended by every batch try_recv returns, sorted
\* and without duplicates
Drain(rx) == [all_paths |-> SortPaths(Range(Concat(rx))), rest |-> <<>>]

\* the arm recv(file_rx), up to run_and_print: the queue is drained and the
\* changed files are printed
RecvFile ==
  /\ watch_pc = "recv_file"
  /\ \E d \in {Drain(file_rx)}, stdout \in Streams :
       /\ file_rx' = d.rest
       /\ watch_log' = Append(watch_log, Handled(d.all_paths))
       /\ IF stdout # "ok"
          THEN watch_pc' = "done" /\ outcome' = <<WatchExit(stdout)>>
          ELSE watch_pc' = "run" /\ outcome' = outcome
  /\ UNCHANGED shutdown_rx
  /\ WatchFrame

\* the batch being handled
HandledLast ==
  watch_log[Max({i \in 1..Len(watch_log) : watch_log[i].kind = "handled"})].paths

\* the arm recv(file_rx), from run_and_print on: the run, whose error is
\* printed and dropped, and the watching message
RunAndPrint ==
  /\ watch_pc = "run"
  /\ \E ok \in BOOLEAN, stdout \in Streams :
       /\ watch_log' = Append(watch_log, Run(HandledLast, invocation, ok))
       /\ IF stdout # "ok"
          THEN watch_pc' = "done" /\ outcome' = <<WatchExit(stdout)>>
          ELSE watch_pc' = "select" /\ outcome' = outcome
  /\ UNCHANGED <<file_rx, shutdown_rx>>
  /\ WatchFrame

WatchLoop == WatchStart \/ Select \/ RecvShutdown \/ RecvFile \/ RunAndPrint

WatchNext ==
  \/ WatchStart
  \/ DebouncerCallback
  \/ DeliverShutdown
  \/ Select
  \/ RecvShutdown
  \/ RecvFile
  \/ RunAndPrint

WatchSpec == WatchInit /\ [][WatchNext]_vars

\* the thread of the loop is scheduled as long as it can take a step
WatchFairSpec == WatchSpec /\ WF_vars(WatchLoop)

(***************************************************************************)
(* Properties of the inline rewriter.                                      *)
(***************************************************************************)
IsRewrite == snap.op = "rewrite" /\ snap.error = None
\* the statement whose literal the rewrite replaced, and the literal
Rewritten == CHOOSE i \in snap.rewrote : TRUE
LiteralBefore == SourceBefore[Rewritten].inline[1]

AlreadyGenerated ==
  /\ IsRewrite
  /\ LiteralBefore = generate_inline_literal(snap.call[1].value,
                                             IndentAt(SourceBefore, snap.call[1].lineno))

GeneratedNoChange == AlreadyGenerated => source = SourceBefore

\* a rewrite with the arguments of the successful rewrite before it
SameRewriteAgain ==
  /\ IsRewrite
  /\ snap'.op = "rewrite"
  /\ snap'.call = snap.call

IsMultiLineRewrite == IsRewrite /\ NewLines(snap.call[1].value) > 0

\* the literal generated for the value at the column of the rewritten call
LiteralAtCallColumn ==
  source[Rewritten].inline[1]
    = generate_inline_literal(snap.call[1].value, SourceBefore[Rewritten].indent)

\* C31: the literal written for a value of several lines has its content
\* lines indented by the column of the line of the matched call plus 4 and
\* its closing quotes by that column, whatever line the search started
\* from.
C31_IndentOfMatchedCall == IsMultiLineRewrite => LiteralAtCallColumn

\* the same for a search that starts from the line of the matched call
C31_IndentFromOwnLine ==
  (IsMultiLineRewrite /\ snap.call[1].lineno = FirstLine(SourceBefore, Rewritten))
    => LiteralAtCallColumn

(***************************************************************************)
(* Properties of the round trip of an inline value: the literal written    *)
(* for a value, evaluated and compared with the value again.               *)
(***************************************************************************)
\* what the call whose literal was rewritten does when the test is run
\* again without update mode, the value being the same
RunAgain ==
  handle_inline_snapshot(World, snap.call[1].value, Evaluate(source[Rewritten].inline[1]),
                         TestFile, <<"test_a">>, FALSE, FirstLine(source, Rewritten))

\* C29: after the literal of a call has been rewritten to a value, running
\* the call again with the same value passes and writes no pending
\* snapshot, whatever the value: of one line, of lines that all start with
\* whitespace, or empty.
C29_InlineRoundTrip ==
  IsRewrite => (RunAgain.error = None /\ RunAgain.w.written = {})

\* a value that is not empty, has no blank first line and has a line that
\* does not start with whitespace
FlushValue ==
  /\ snap.call[1].value # <<>>
  /\ dedent(snap.call[1].value) = trim_end(snap.call[1].value)

\* the same for the values dedent leaves as they are
C29_RoundTripOfFlushValues ==
  (IsRewrite /\ FlushValue) => (RunAgain.error = None /\ RunAgain.w.written = {})

(***************************************************************************)
(* Properties of an assertion with an inline value.                        *)
(***************************************************************************)
IsInlineAssertion ==
  /\ snap.op = "assert_snapshot"
  /\ snap.before[1].ctx # None
  /\ IsSome(snap.call[1].inline)
  /\ snap.call[1].name = None
  /\ snap.serialized # None

InlineValue == Evaluate(snap.call[1].inline[1])
Actual == snap.serialized[1]
InlineEqual == trim_end(dedent(InlineValue)) = trim_end(Actual)

\* the pending file of the call: <test>_inline_<line>
InlinePending ==
  pending_path(snapshot_path(TestFile, file_stem(TestFile),
                             snap.before[1].ctx[1].test_name
                               \o <<"_inline_", ToString(snap.call[1].lineno)>>))

PassedUntouched ==
  /\ snap.error = None
  /\ snap.written = {}
  /\ snap.rewrote = {}
  /\ source = SourceBefore
  /\ disk = DiskBefore

RewroteOwnLiteral ==
  /\ snap.error = None
  /\ snap.written = {}
  /\ disk = DiskBefore
  /\ snap.rewrote = {snap.call[1].stmt}
  /\ LiteralHolds(source[snap.call[1].stmt], Actual)
  /\ \A j \in 1..Len(source) : j # snap.call[1].stmt => source[j] = SourceBefore[j]

WrotePending ==
  /\ snap.error # None
  /\ source = SourceBefore
  /\ snap.written = {InlinePending}
  /\ InlinePending \in DOMAIN disk
  /\ \E f \in {parse(disk[InlinePending])} :
       /\ f # None
       /\ f[1].metadata.inline_source = Some(SourcePath)
       /\ f[1].metadata.inline_line = Some(snap.call[1].lineno)
       /\ f[1].content = Actual

\* C30: an assertion whose inline value, dedented, equals the actual value
\* up to trailing whitespace passes and writes nothing; otherwise in update
\* mode the call's literal is rewritten, no pending file is written and
\* the call passes; otherwise a pending file <test>_inline_<line> with the
\* inline metadata is written, the test file is left as it was and the
\* call fails.
C30_InlineOutcomes ==
  IsInlineAssertion =>
    IF InlineEqual THEN PassedUntouched
    ELSE IF snap.call[1].update THEN RewroteOwnLiteral
    ELSE WrotePending

\* the same without update mode, an empty inline value counting as unequal
C30_OutcomesWithoutUpdate ==
  (IsInlineAssertion /\ ~snap.call[1].update) =>
    IF InlineValue # <<>> /\ InlineEqual THEN PassedUntouched ELSE WrotePending

\* the same in update mode, for a call that is on the line it was loaded on
C30_UpdateOnOwnLine ==
  (IsInlineAssertion /\ snap.call[1].update
     /\ FirstLine(SourceBefore, snap.call[1].stmt) = snap.call[1].lineno) =>
    IF InlineValue # <<>> /\ InlineEqual THEN PassedUntouched ELSE RewroteOwnLiteral

(***************************************************************************)
(* Properties of the accept command over duplicate pending files.          *)
(***************************************************************************)
IsAcceptAll == snap.op = "accept_all"
Todo == {snap.target[i] : i \in 1..Len(snap.target)}
LineOf(p) == parse(DiskBefore[p])[1].metadata.inline_line[1]
OriginOf(p) == (CHOOSE o \in snap.before[1].origin : o.path = p).stmt

\* the pairs of pending files of one call, the first recorded on a line the
\* call is no longer on and the second on the line of the call
Duplicates ==
  {pair \in Todo \X Todo :
     /\ OriginOf(pair[1]) = OriginOf(pair[2])
     /\ LineOf(pair[2]) = FirstLine(SourceBefore, OriginOf(pair[2]))
     /\ LineOf(pair[1]) # LineOf(pair[2])}

\* the calls the pending files were written by
OwnCalls == {OriginOf(p) : p \in Todo}

\* C22: when a call has a stale and a fresh pending file, one accept of all
\* pending files succeeds, leaves the call's literal standing for the
\* pending value, removes both files, and alters no call that has no
\* pending file of its own.
C22_DuplicatePendings ==
  (IsAcceptAll /\ Duplicates # {}) =>
    /\ snap.error = None
    /\ \A pair \in Duplicates :
         /\ LiteralHolds(source[OriginOf(pair[2])], DiskBefore[pair[2]].body)
         /\ pair[1] \notin DOMAIN disk
         /\ pair[2] \notin DOMAIN disk
    /\ \A j \in 1..Len(source) : j \notin OwnCalls => source[j] = SourceBefore[j]

\* the same, when no call of the function of the duplicated call lies
\* between the stale line and the call
NoCallBetween ==
  \A pair \in Duplicates :
    \A j \in 1..(OriginOf(pair[2]) - 1) :
      (SourceBefore[j].k = "call" /\ FirstLine(SourceBefore, j) >= LineOf(pair[1]))
        => FunctionOf(j) # FunctionOf(OriginOf(pair[2]))

C22_DuplicatesAcrossFunctions ==
  (IsAcceptAll /\ Duplicates # {} /\ NoCallBetween) =>
    /\ snap.error = None
    /\ \A pair \in Duplicates :
         /\ LiteralHolds(source[OriginOf(pair[2])], DiskBefore[pair[2]].body)
         /\ pair[1] \notin DOMAIN disk
         /\ pair[2] \notin DOMAIN disk
    /\ \A j \in 1..Len(source) : j \notin OwnCalls => source[j] = SourceBefore[j]

(***************************************************************************)
(* Properties of the command line.                                         *)
(***************************************************************************)
Exited == outcome # <<>>
Exit == ExitCode(outcome[1].status[1])
ReturnedError == outcome[1].error # None
BrokenPipe == outcome[1].error = Some("broken_pipe")
Reached(step) == step \in outcome[1].reached

\* a test invocation without --watch and without --dry-run
NormalRun ==
  /\ invocation.program = "karva"
  /\ invocation.command = "test"
  /\ ~invocation.watch
  /\ ~invocation.dry_run

ReportsSuccess == is_success(invocation.stats) /\ invocation.discovery_diagnostics = 0

\* the exit status of the worker with the invocation at hand, had every
\* test passed
WorkerExitAllPassed ==
  karva_worker_main([invocation EXCEPT !.stats = [passed |-> 1, failed |-> 0],
                                       !.discovery_diagnostics = 0]).status

WorkerExit ==
  (Exited /\ invocation.program = "karva-worker") =>
    /\ Reached("write_result") => Exit = 0
    /\ outcome[1].status = WorkerExitAllPassed

\* C23 as stated: every error exits with 2, and 0 is only the exit of a
\* successful run.
C23_ExitCodes_Stated ==
  /\ (Exited /\ NormalRun) =>
       /\ Exit = 0 <=> (~ReturnedError /\ ReportsSuccess)
       /\ Exit = 1 <=> (~ReturnedError /\ ~ReportsSuccess)
       /\ Exit = 2 <=> ReturnedError
  /\ WorkerExit

\* C23: a test invocation without --watch and --dry-run exits with 0 iff
\* the run completed with successful statistics and no discovery
\* diagnostics or an error with a broken pipe in its chain was returned,
\* with 1 iff the run completed with failed tests or discovery diagnostics,
\* and with 2 iff any other error was returned; a worker exits with 0
\* whenever it wrote its result file, whatever the outcomes of the tests.
C23_ExitCodes ==
  /\ (Exited /\ NormalRun) =>
       /\ Exit = 0 <=> ((~ReturnedError /\ ReportsSuccess) \/ BrokenPipe)
       /\ Exit = 1 <=> (~ReturnedError /\ ~ReportsSuccess)
       /\ Exit = 2 <=> (ReturnedError /\ ~BrokenPipe)
  /\ WorkerExit

\* the output of a finished run with failed tests met a closed pipe
C23_Witness ==
  /\ Exited
  /\ NormalRun
  /\ Reached("print_test_output")
  /\ BrokenPipe
  /\ ~ReportsSuccess
  /\ Exit = 0

\* a worker wrote the result of a run with failed tests
C23_WorkerWrote ==
  /\ Exited
  /\ invocation.program = "karva-worker"
  /\ Reached("write_result")
  /\ invocation.stats.failed > 0

\* C24: with --watch and --dry-run together karva test exits with 2, and
\* has neither collected tests nor started a run or the watch loop.
C24_WatchDryRunConflict ==
  (Exited /\ invocation.program = "karva" /\ invocation.command = "test"
     /\ invocation.watch /\ invocation.dry_run) =>
    /\ Exit = 2
    /\ outcome[1].reached = {}

\* the two flags were the only thing wrong with the command line
C24_Witness ==
  /\ Exited
  /\ invocation.program = "karva"
  /\ invocation.command = "test"
  /\ invocation.watch
  /\ invocation.dry_run
  /\ invocation.argfile = "ok"
  /\ invocation.cwd = "ok"
  /\ invocation.metadata = "ok"
  /\ invocation.collect = "ok"
  /\ Exit = 2

(***************************************************************************)
(* Properties of the partitioner.                                          *)
(***************************************************************************)
AllTests == 1..Len(invocation.tests)
Waiting == {unassigned[i] : i \in 1..Len(unassigned)}
Workers == 1..Len(partitions)

\* the partitioning has started / has ended
Partitioning == partitions # <<>>
Partitioned == Partitioning /\ unassigned = <<>>

\* C25: with one worker or more, the partitions are pairwise disjoint, hold
\* together with the tests still waiting every test, hold every test once
\* none is waiting, and every test was assigned to a worker whose load was
\* the smallest when it was assigned.
C25_PartitionCoverage ==
  Partitioning =>
    /\ Len(partitions) >= 1
    /\ \A v, w \in Workers : v # w => partitions[v].tests \cap partitions[w].tests = {}
    /\ \A w \in Workers : partitions[w].tests \cap Waiting = {}
    /\ UNION {partitions[w].tests : w \in Workers} \cup Waiting = AllTests
    /\ Partitioned => UNION {partitions[w].tests : w \in Workers} = AllTests
    /\ placed # <<>> =>
         /\ \A v \in Workers : placed[1].before[placed[1].worker].load <= placed[1].before[v].load
         /\ placed[1].test \in partitions[placed[1].worker].tests
         /\ \A k \in Waiting :
              Weight(invocation.tests, k) <= Weight(invocation.tests, placed[1].test)

\* three tests over two workers: the last one went to the worker that held
\* the shorter test
C25_Witness ==
  /\ Partitioned
  /\ Len(partitions) = 2
  /\ Len(invocation.tests) = 3
  /\ placed # <<>>
  /\ \E v \in Workers : placed[1].before[v].load > placed[1].before[placed[1].worker].load

(***************************************************************************)
(* Properties of the arguments of a test variant.                          *)
(***************************************************************************)
\* the names a row binds that a dependency of the variant resolved and set up
Overridden ==
  {n \in Keys(variant.params) :
     \E i \in 1..Len(variant.fixture_dependencies) :
        variant.fixture_dependencies[i].name = n /\ variant.fixture_dependencies[i].ok}

RowValueOf(n) == variant.params[CHOOSE i \in 1..Len(variant.params) : variant.params[i][1] = n][2]

\* the map holds one entry of the name and the entry is the row's value
HoldsRowValue(map, n) ==
  /\ Cardinality(EntriesOf(map, n)) = 1
  /\ \A i \in EntriesOf(map, n) : map[i][2] = RowValueOf(n)

\* C28: when a row binds a name that is also the name of a fixture the
\* variant resolved, the arguments setup_test_fixtures returns hold exactly
\* one entry of that name, with the row's value, and so does the dictionary
\* the test body is called with, in whatever order the dependencies and the
\* row's parameters were processed.
C28_RowOverFixture ==
  /\ pc \in {"run_test", "ran"} => \A n \in Overridden : HoldsRowValue(last.args, n)
  /\ pc = "ran" => \A n \in Overridden : HoldsRowValue(last.body, n)

\* a test was called with a row value for a name whose fixture was set up,
\* and with a fixture value for another name
C28_Witness ==
  /\ pc = "ran"
  /\ Overridden # {}
  /\ \E i \in 1..Len(last.body) : last.body[i][2] = FixtureValue(last.body[i][1])

(***************************************************************************)
(* Properties of the scanner.                                              *)
(***************************************************************************)
Scanned == scan_location # <<>>

\* the search started at or before the line of the first call, with no
\* function name or the name of the call's function
FirstCallSelected ==
  /\ Scanned
  /\ scan_location[1].line \in 1..scan_source.call_line
  /\ scan_location[1].fn \in {None, Some(<<"test_a">>)}

\* C32: when the first call selected has no inline= keyword between its
\* parentheses, no location is returned, the rewrite reports that nothing
\* was found and the text stays as it was, although a later call has an
\* inline literal.
C32_NeverLeavesCall ==
  (FirstCallSelected /\ scan_source.real = None) =>
    /\ scan_location[1].found = None
    /\ scan_location[1].error = Some("NotFound")
    /\ scan_source.src = scan_location[1].before

\* the first call has no inline literal and a later call has one
C32_Witness ==
  /\ FirstCallSelected
  /\ scan_source.real = None
  /\ scan_source.later_real # None
  /\ scan_location[1].error = Some("NotFound")

\* C33: whatever strings and comments the call holds, the location returned
\* spans exactly the literal after the call's own inline= keyword, quotes
\* included: nothing inside a string or a comment is taken for the keyword
\* or for a parenthesis of the call.
C33_StringAndCommentAware ==
  (FirstCallSelected /\ scan_source.real # None) =>
    /\ scan_location[1].found # None
    /\ <<scan_location[1].found[1].start, scan_location[1].found[1].end>> = scan_source.real[1]

\* the call's first argument is a triple-quoted string that holds the
\* keyword, and the real literal was found
C33_Witness ==
  /\ FirstCallSelected
  /\ scan_source.real # None
  /\ scan_location[1].found # None
  /\ \E q \in Quotes :
       starts_with(scan_location[1].before, 10, StringLiteral(q, TRUE, "inline="))

(***************************************************************************)
(* Properties of the snapshot context under the runner.                    *)
(***************************************************************************)
\* the last step was a snapshot assertion of the given kind of guest code
Asserted(op) == snap.op = op /\ snap.call # <<>>

ContextBefore == snap.before[1].ctx

OutsideContext == snap.error # None /\ snap.error[1].kind = "RuntimeError"

\* C34: at the start of every invocation of a test body, retries included,
\* the counter of unnamed snapshots is 0, so the one unnamed snapshot of
\* the body resolves the name of the test and never fails as one of
\* several unnamed snapshots.
C34_CounterZeroAtBody ==
  Asserted("body") =>
    /\ ContextBefore # None
    /\ ContextBefore[1].counter = 0
    /\ ~MultipleUnnamed
    /\ snap.resolved = Some(snapshot_path(TestFile, file_stem(TestFile), variant.name))

\* the same for the first invocation of the body of a variant
C34_CounterZeroAtFirstAttempt ==
  (Asserted("body") /\ variant.attempts = 1) =>
    /\ ContextBefore # None
    /\ ContextBefore[1].counter = 0
    /\ ~MultipleUnnamed
    /\ snap.resolved = Some(snapshot_path(TestFile, file_stem(TestFile), variant.name))

\* C35: an assertion of a test body runs under the context of the variant
\* whose body it is, and an assertion made while no body is running, in
\* the setup of a fixture before the body or in the teardown of the
\* module, fails as called outside of a test context and writes nothing.
C35_ContextScopedToBody ==
  /\ Asserted("body") =>
       (ContextBefore # None /\ ContextBefore[1].test_name = variant.name)
  /\ (Asserted("fixture_setup") \/ Asserted("module_finalizer")) =>
       (OutsideContext /\ snap.written = {})

\* the part about the body alone
C35_BodyUnderOwnContext ==
  Asserted("body") => (ContextBefore # None /\ ContextBefore[1].test_name = variant.name)

\* the part about fixture setup, before any test body has run
C35_OutsideBeforeFirstBody ==
  (Asserted("fixture_setup") /\ modf.t = 1) => (OutsideContext /\ snap.written = {})

(***************************************************************************)
(* Properties of pending files left beside a passing snapshot.             *)
(***************************************************************************)
\* the last operation was a file snapshot assertion that passed
FilePassed == IsFileSnapshot /\ snap.error = None

\* the pending file of the target holds another content than the value
StalePending(target, value) ==
  /\ PendingOf(target) \in DOMAIN disk
  /\ Strip(disk[PendingOf(target)].body) # Strip(value)

\* C36: after a file snapshot assertion passes for a target, because the
\* stored content is equal or because update mode wrote the .snap, no
\* .snap.new with a different content remains on disk for that target.
C36_NoStalePending ==
  FilePassed => ~StalePending(snap.resolved[1], snap.serialized[1])

\* a passing file snapshot assertion writes no pending file and removes none
C36_PassingLeavesPending ==
  FilePassed => Untouched(PendingOf(snap.resolved[1]))

\* a passing file snapshot assertion leaves the .snap with the content of
\* the value
C36_PassedMeansStored ==
  FilePassed =>
    /\ snap.resolved[1] \in DOMAIN disk
    /\ Strip(disk[snap.resolved[1]].body) = Strip(snap.serialized[1])

(***************************************************************************)
(* Properties of an accept that fails.                                     *)
(***************************************************************************)
AcceptedPath == snap.target[1]
MetaOf(path) == parse(DiskBefore[path])[1].metadata

\* the file is the pending file of an inline snapshot
InlinePendingFile(path) ==
  /\ IsSome(parse(DiskBefore[path]))
  /\ IsSome(MetaOf(path).inline_source)
  /\ IsSome(MetaOf(path).inline_line)

HintLine(path) == MetaOf(path).inline_line[1]

\* the calls of the test file that begin on the hint line or after it
CallsFrom(line) == {i \in CallsOf(SourceBefore) : FirstLine(SourceBefore, i) >= line}

\* the hint line lies past the end of the test file
HintPastEnd(path) == HintLine(path) > LineCount(SourceBefore)

\* no snapshot call begins on the hint line or after it
NoCallFrom(path) == CallsFrom(HintLine(path)) = {}

\* the first call that begins on the hint line or after it, a call of the
\* function the pending file names, has no inline= argument
NoLiteralAfter(path) ==
  /\ CallsFrom(HintLine(path)) # {}
  /\ \E i \in {Min(CallsFrom(HintLine(path)))} :
       /\ SourceBefore[i].inline = None
       /\ FunctionOf(i) = Some(FunctionNameOf(MetaOf(path).source[1]))

CannotLocate(path) ==
  InlinePendingFile(path) /\ (HintPastEnd(path) \/ NoCallFrom(path) \/ NoLiteralAfter(path))

NothingDone == source = SourceBefore /\ disk = DiskBefore

IsAcceptPath == snap.op = "accept_pending"
IsAcceptCommand == snap.op = "snapshot_accept"

\* the command ended with an error of accept_pending
AcceptError == snap.error # None /\ snap.error[1].kind \in {"NotFound", "InvalidInput"}

\* the first pending snapshot of the command's list that is still on disk
FirstLeft == Min({i \in 1..Len(snap.target) : snap.target[i] \in DOMAIN disk})

\* C37: an accept of an inline pending snapshot whose literal cannot be
\* located (hint line past the end of the file, no call from there on, no
\* literal after inline=) returns an error and leaves the test file and the
\* .snap.new as they were; a path that does not end in .new is rejected as
\* invalid input and nothing is renamed; the accept command stops at the
\* first such error, leaves the pending files after it untouched and exits
\* with code 2.
C37_AcceptFailure ==
  /\ (IsAcceptPath /\ CannotLocate(AcceptedPath)) =>
       (snap.error # None /\ snap.error[1].kind = "NotFound" /\ NothingDone)
  /\ (IsAcceptPath /\ AcceptedPath.ext # ".snap.new") =>
       (snap.error # None /\ snap.error[1].kind = "InvalidInput" /\ NothingDone)
  /\ (IsAcceptPath /\ snap.error # None) => NothingDone
  /\ (IsAcceptCommand /\ AcceptError) =>
       /\ Exited /\ Exit = 2
       /\ \E k \in 1..Len(snap.target) :
            /\ \A j \in k..Len(snap.target) :
                 snap.target[j] \in DOMAIN disk /\ Untouched(snap.target[j])
            /\ \A j \in 1..(k - 1) : snap.target[j] \notin DOMAIN disk

\* an accept command that stopped at a pending snapshot with others after it
C37_Witness ==
  /\ IsAcceptCommand
  /\ AcceptError
  /\ Len(snap.target) >= 2
  /\ FirstLeft < Len(snap.target)
  /\ Exit = 2

(***************************************************************************)
(* Properties of the listings.                                             *)
(***************************************************************************)
Listed == listing # <<>> /\ IsSome(listing.committed) /\ IsSome(listing.pending) /\ IsSome(listing.all)

CommittedList == listing.committed[1]
PendingList == listing.pending[1]
AllList == listing.all[1]

CommittedPaths == {CommittedList[i].snap_path : i \in 1..Len(CommittedList)}
PendingPaths == {PendingList[i].pending_path : i \in 1..Len(PendingList)}
AllPaths == {AllList[i].path : i \in 1..Len(AllList)}

\* the characters of a path: its components joined by "/"
RECURSIVE PathText(_)
PathText(path) ==
  IF path = <<>> THEN <<>>
  ELSE IF Len(path) = 1 THEN path[1]
  ELSE path[1] \o <<"/">> \o PathText(Tail(path))

\* the entries of a list ascend by path
Ascending(paths) ==
  \A i, j \in 1..Len(paths) : i < j => ComponentsLess(paths[i], paths[j])

\* C38: the committed list and the pending list are disjoint, their union
\* is the list of all snapshots, every list is sorted by path, and the
\* snap_path of a pending entry is its pending_path without the ".new" at
\* its end.
C38_ListingPartition ==
  Listed =>
    /\ CommittedPaths \cap PendingPaths = {}
    /\ CommittedPaths \cup PendingPaths = AllPaths
    /\ Len(CommittedList) + Len(PendingList) = Len(AllList)
    /\ Ascending([i \in 1..Len(CommittedList) |-> CommittedList[i].snap_path])
    /\ Ascending([i \in 1..Len(PendingList) |-> PendingList[i].pending_path])
    /\ Ascending([i \in 1..Len(AllList) |-> AllList[i].path])
    /\ \A i \in 1..Len(PendingList) :
         PathText(PendingList[i].snap_path) \o <<".", "new">> = PathText(PendingList[i].pending_path)

\* a tree with a committed snapshot of an upper-case extension and a
\* pending snapshot, listed in all three ways
C38_Witness ==
  /\ Listed
  /\ Len(PendingList) = 1
  /\ \E i \in 1..Len(CommittedList) : ends_with(CommittedList[i].snap_path[Len(CommittedList[i].snap_path)], <<"SNAP">>)
  /\ Len(AllList) = 2

(***************************************************************************)
(* Properties of watch mode.                                               *)
(***************************************************************************)
Entries(kind) == {i \in 1..Len(watch_log) : watch_log[i].kind = kind}

\* the runs after the initial one
ReRuns == Entries("run") \ {1}

\* the .py files among the watched paths
PySources == {<< <<"a", ".", "py">> >>, << <<"b", ".", "py">> >>}

\* the entry before entry i that is a handled batch or a run
Previous(i) == Max({0} \cup {j \in 1..(i - 1) : watch_log[j].kind \in {"handled", "run"}})

\* the .py files the debouncer reported between two entries
Reported(from, to) ==
  UNION {watch_log[e].paths \cap PySources : e \in {x \in Entries("event") : from < x /\ x < to}}

\* the handled batch before entry i
HandledBefore(i) == Max({0} \cup {j \in Entries("handled") : j < i})

\* the loop is at its select!, or in an arm before anything is done
AtLoopTop == watch_pc \in {"select", "blocked", "recv_shutdown", "recv_file"}

\* the first entry is the initial run, every later run follows a handled
\* batch of .py files and no other run, and every run uses the
\* configuration of the invocation
RunsOnlyForBatches ==
  /\ watch_log # <<>> => (watch_log[1].kind = "run" /\ watch_log[1].paths = <<>>)
  /\ \A i \in ReRuns :
       /\ Previous(i) \in Entries("handled")
       /\ watch_log[i].paths = watch_log[Previous(i)].paths
  /\ \A i \in Entries("run") : watch_log[i].config = <<invocation>>

\* a handled batch is every .py file reported since the batch before it,
\* each once and in order, and there is one
Coalesced ==
  \A j \in Entries("handled") :
    /\ Range(watch_log[j].paths) = Reported(HandledBefore(j), j)
    /\ Range(watch_log[j].paths) # {}
    /\ Ascending(watch_log[j].paths)

\* nothing the debouncer reported is left in the channel by a handled batch
QueueDrained == (watch_pc = "run") => Range(Concat(file_rx)) = Reported(HandledBefore(Len(watch_log) + 1), Len(watch_log) + 1)

\* every handled batch has had its run
EveryBatchRun == Cardinality(Entries("handled")) = Cardinality(ReRuns)

\* a step of the loop that ends a run whose result is a failure
FailedRunStep ==
  /\ watch_pc \in {"start", "run"}
  /\ watch_pc' # watch_pc
  /\ ~watch_log'[Len(watch_log')].ok

\* the loop ends with an error
EndsWithError == watch_pc' = "done" /\ outcome'[1].error # None

\* the signal delivered to a blocked loop is the operation select! takes,
\* and the arm of the signal ends the loop without a run and with success
ShutdownSteps ==
  /\ (watch_pc = "blocked" /\ ~shutdown_rx /\ shutdown_rx') => watch_pc' = "recv_shutdown"
  /\ watch_pc = "recv_shutdown" =>
       /\ watch_pc' \in {"recv_shutdown", "done"}
       /\ Cardinality({i \in 1..Len(watch_log') : watch_log'[i].kind = "run"})
            = Cardinality(Entries("run"))
       /\ watch_pc' = "done" => (outcome'[1].error = None /\ ExitCode(outcome'[1].status[1]) = 0)

ShutdownTaken == watch_pc = "recv_shutdown"
ExitedSuccessfully == watch_pc = "done" /\ Exited /\ ~ReturnedError /\ Exit = 0

\* C39 as stated: every handled batch has its run whenever the loop is not
\* in a run, also when it has ended.
C39_WatchLoop_Stated ==
  /\ [](RunsOnlyForBatches /\ Coalesced /\ QueueDrained)
  /\ [](watch_pc \notin {"start", "run"} => EveryBatchRun)
  /\ [][FailedRunStep => (watch_pc' = "select" \/ EndsWithError)]_vars
  /\ [][ShutdownSteps]_vars
  /\ (ShutdownTaken ~> ExitedSuccessfully)

\* C39: after the initial run a run is made only for a received batch of
\* changed .py files; a handled batch is the received one with all those
\* queued, and has exactly one run with the configuration of the
\* invocation unless a write to standard output fails, which ends the loop
\* with that error; changes of other files start no run; a failed run does
\* not end the loop; the shutdown signal delivered to the waiting loop ends
\* it without another run, and the command exits with success.
C39_WatchLoop ==
  /\ [](RunsOnlyForBatches /\ Coalesced /\ QueueDrained)
  /\ []((AtLoopTop \/ (watch_pc = "done" /\ ~ReturnedError)) => EveryBatchRun)
  /\ [][FailedRunStep => (watch_pc' = "select" \/ EndsWithError)]_vars
  /\ [][ShutdownSteps]_vars
  /\ (ShutdownTaken ~> ExitedSuccessfully)

\* the loop ended by the signal after a failed run of a batch made of two
\* reports of the debouncer
C39_Witness ==
  /\ ExitedSuccessfully
  /\ shutdown_rx
  /\ \E j \in Entries("handled") :
       /\ Len(watch_log[j].paths) = 2
       /\ j - HandledBefore(j) > 2
  /\ \E i \in ReRuns : ~watch_log[i].ok

====
